---- MODULE Spec2Model ----
(***************************************************************************)
(* Model of the Kairo "maestro" cognitive state: the StateManager store    *)
(* (emotions, personality traits, logs, persistence), the EmotionEngine    *)
(* (text analysis, inhibition, decay thread) and the action handlers that  *)
(* write the store.                                                        *)
(*                                                                         *)
(* Numbers.  Python floats are modelled as fixed-point integers in units   *)
(* of 0.005: 0.01 = 2, 0.05 = 10, 0.5 = 100, 1.0 = 200, 5.0 = 1000,        *)
(* 10.0 = 2000.  Wall-clock time is in whole seconds.                      *)
(***************************************************************************)
EXTENDS Integers, Sequences, FiniteSets, TLC

VARIABLES
    emotional_state,     \* kairo_state["emotional_state"]: dict name -> value
    personality_traits,  \* kairo_state["personality_traits"]: dict name -> value
    emotion_log,         \* entries written by log_emotion_change
    personality_log,     \* entries written by log_personality_change
    emotion_log_times,   \* StateManager._emotion_log_times: dict name -> time
    now,                 \* time.time(), seconds
    last_decay_time,     \* EmotionEngine.last_decay_time
    decay,               \* the decay thread: position and locals of its tick
    fg,                  \* the foreground analysis pass in flight, with its locals
    phase,               \* "boot" before StateManager.initialize, then "running"
    last_op,             \* the last store call: name, arguments, value before, result
    nops,                \* number of calls made so far
    lock,                \* StateManager.lock (RLock): owner and hold count
    threads,             \* per thread: the call in progress, its position, its locals
    files,               \* the persistence files and the I/O in progress
    access,              \* the last access to a guarded structure: who, what, lock held
    memories,            \* kairo_state["memories"]: list of records
    interaction_count,   \* kairo_state["interaction_count"]
    now_ms,              \* int(time.time() * 1000) as the memory ids see it
    user_profiles,       \* StateManager.user_profiles: dict user id -> profile
    last_save_time,      \* StateManager.last_save_time
    held,                \* a mapping a caller got from a getter and still holds
    learning_history,    \* PersonalityCore.learning_history: list of events
    idle,                \* IdleProcessor: its fields and the tick in progress
    important_memories,  \* StateManager.important_memories: the cache list
    maestro              \* MaestroSystem: its flags, its modules, its position

vars == <<emotional_state, personality_traits, emotion_log, personality_log,
          emotion_log_times, now, last_decay_time, decay, fg, phase, last_op,
          nops, lock, threads, files, access, memories, interaction_count,
          now_ms, user_profiles, last_save_time, held, learning_history, idle,
          important_memories, maestro>>

storeVars == <<emotional_state, personality_traits, emotion_log, personality_log,
               emotion_log_times>>

memVars == <<memories, interaction_count, now_ms, important_memories>>

coreVars == <<learning_history, idle, maestro>>

profileVars == <<user_profiles, last_save_time, held, coreVars>>

concVars == <<lock, threads, files, access, memVars, profileVars>>

-----------------------------------------------------------------------------
(* Configuration: config.py *)

EmotionOrder == <<"joy", "sadness", "anger", "fear", "surprise", "interest">>

Emotions == {EmotionOrder[i] : i \in 1..Len(EmotionOrder)}

default_values ==
    [e \in Emotions |-> IF e \in {"joy", "interest"} THEN 1000 ELSE 0]

decay_rates ==
    [e \in Emotions |->
        CASE e = "joy"      -> 20
          [] e = "sadness"  -> 10
          [] e = "anger"    -> 40
          [] e = "fear"     -> 30
          [] e = "surprise" -> 60
          [] e = "interest" -> 10]

EmotionBoundLo == 0
EmotionBoundHi == 2000

TraitOrder == <<"curiosity", "empathy", "creativity", "logic", "humor",
                "assertiveness", "patience", "openness">>

Traits == {TraitOrder[i] : i \in 1..Len(TraitOrder)}

initial_traits == [t \in Traits |-> 1000]

TraitBoundLo == 0
TraitBoundHi == 2000

-----------------------------------------------------------------------------
(* Python helpers *)

Max(a, b) == IF a >= b THEN a ELSE b

Min(a, b) == IF a <= b THEN a ELSE b

Abs(a) == IF a < 0 THEN 0 - a ELSE a

\* d.get(k, default)
DictGet(d, k, default) == IF k \in DOMAIN d THEN d[k] ELSE default

\* d[k] = v
DictSet(d, k, v) == [x \in (DOMAIN d) \cup {k} |-> IF x = k THEN v ELSE d[x]]

\* A JSON value that is not a number (null, a string, a list): comparing it
\* with a float or adding a float to it raises TypeError.
NonNumeric == 0 - 999999

IsNumber(v) == v # NonNumeric

-----------------------------------------------------------------------------
(* StateManager: the store operations (state_manager.py) *)

\* The part of update_emotional_state after old_value was read: clamp,
\* significance filter, write, log with cooldown.  The function has no
\* return statement: ret is empty (None).  raised is a TypeError from
\* old_value + delta.
UpdateEmotionFrom(es, log, times, clock, emotion, delta, old_value) ==
    IF ~IsNumber(old_value) \/ ~IsNumber(delta)
    THEN [es |-> es, log |-> log, times |-> times, ret |-> <<>>, raised |-> TRUE]
    ELSE
    LET new_value == Max(EmotionBoundLo, Min(EmotionBoundHi, old_value + delta))
        change == Abs(new_value - old_value)
        last_log_time == DictGet(times, emotion, 0)
        logged == change >= 100 /\ clock - last_log_time >= 3
    IN  [es    |-> IF change >= 100 THEN DictSet(es, emotion, new_value)
                   ELSE IF change > 2 THEN DictSet(es, emotion, new_value)
                   ELSE es,
         log   |-> IF logged
                   THEN Append(log, [emotion |-> emotion, old_value |-> old_value,
                                     new_value |-> new_value])
                   ELSE log,
         times |-> IF logged THEN DictSet(times, emotion, clock) ELSE times,
         ret   |-> <<>>,
         raised |-> FALSE]

update_emotional_state(es, log, times, clock, emotion, delta) ==
    UpdateEmotionFrom(es, log, times, clock, emotion, delta,
                      DictGet(es, emotion, 0))

\* The part of update_personality_trait after old_value was read, with every
\* number in units k times finer than 0.005.
UpdateTraitScaled(pt, log, trait, delta, old_value, k) ==
    IF ~IsNumber(old_value) \/ ~IsNumber(delta)
    THEN [pt |-> pt, log |-> log, ret |-> <<>>, raised |-> TRUE]
    ELSE
    LET new_value == Max(k * TraitBoundLo, Min(k * TraitBoundHi, old_value + delta))
        significant == Abs(new_value - old_value) > 2 * k
    IN  [pt  |-> IF significant THEN DictSet(pt, trait, new_value) ELSE pt,
         log |-> IF significant
                 THEN Append(log, [trait |-> trait, old_value |-> old_value,
                                   new_value |-> new_value])
                 ELSE log,
         ret |-> <<>>,
         raised |-> FALSE]

\* The part of update_personality_trait after old_value was read.
UpdateTraitFrom(pt, log, trait, delta, old_value) ==
    UpdateTraitScaled(pt, log, trait, delta, old_value, 1)

update_personality_trait(pt, log, trait, delta) ==
    UpdateTraitFrom(pt, log, trait, delta, DictGet(pt, trait, 1000))

\* get_emotional_state: a copy of the dict
get_emotional_state(es) == es

\* get_personality_trait
get_personality_trait(pt, trait) == DictGet(pt, trait, 1000)

-----------------------------------------------------------------------------
(* Snapshot load: _load_kairo_state and _validate_and_fix_state *)

\* A JSON object as the sequence of its <<key, value>> members, in file order.
PairsToDict(pairs) ==
    [k \in {pairs[i][1] : i \in 1..Len(pairs)} |->
        LET i == CHOOSE j \in 1..Len(pairs) :
                     /\ pairs[j][1] = k
                     /\ \A l \in (j+1)..Len(pairs) : pairs[l][1] # k
        IN  pairs[i][2]]

\* One validation loop: walks the members in order and replaces every value
\* outside [lo, hi] by its default; a value that is not a number raises
\* TypeError at the comparison and ends the walk with the rest untouched.
RECURSIVE ValidateLoop(_, _, _, _, _, _)
ValidateLoop(pairs, i, d, lo, hi, default) ==
    IF i > Len(pairs) THEN [dict |-> d, raised |-> FALSE]
    ELSE LET k == pairs[i][1]
             value == pairs[i][2]
         IN  IF ~IsNumber(value) THEN [dict |-> d, raised |-> TRUE]
             ELSE IF ~(lo <= value /\ value <= hi)
                  THEN ValidateLoop(pairs, i + 1, DictSet(d, k, default[k]),
                                    lo, hi, default)
                  ELSE ValidateLoop(pairs, i + 1, d, lo, hi, default)

TraitFix == [k \in Traits \cup {"charisma"} |-> 1000]

EmotionFix ==
    [k \in Emotions \cup {"love"} |-> IF k \in Emotions THEN default_values[k] ELSE 0]

\* _validate_and_fix_state on the merged state: traits first, then emotions;
\* an exception in the trait loop skips the emotion loop.
validate_and_fix_state(traitPairs, emotionPairs) ==
    LET t == ValidateLoop(traitPairs, 1, PairsToDict(traitPairs),
                          TraitBoundLo, TraitBoundHi, TraitFix)
        e == ValidateLoop(emotionPairs, 1, PairsToDict(emotionPairs),
                          EmotionBoundLo, EmotionBoundHi, EmotionFix)
    IN  IF t.raised
        THEN [personality_traits |-> t.dict,
              emotional_state |-> PairsToDict(emotionPairs), raised |-> TRUE]
        ELSE [personality_traits |-> t.dict,
              emotional_state |-> e.dict, raised |-> e.raised]

\* _load_kairo_state: no file or an unreadable file leaves the defaults;
\* otherwise the loaded members replace the defaults (kairo_state.update) and
\* are validated, and an exception from the validation is caught and logged.
load_kairo_state(snapshot) ==
    IF ~snapshot.exists \/ ~snapshot.parses
    THEN [personality_traits |-> initial_traits,
          emotional_state |-> default_values,
          memories |-> << >>, interaction_count |-> 0,
          raised |-> snapshot.exists /\ ~snapshot.parses]
    ELSE LET v == validate_and_fix_state(snapshot.personality_traits,
                                         snapshot.emotional_state)
         IN  [personality_traits |-> v.personality_traits,
              emotional_state |-> v.emotional_state,
              memories |-> snapshot.memories,
              interaction_count |-> snapshot.interaction_count,
              raised |-> v.raised]

-----------------------------------------------------------------------------
(* EmotionEngine (emotion_engine.py) *)

\* emotion_triggers[emotion]["multiplier"], times 10
multiplier ==
    [e \in Emotions |->
        CASE e = "joy"      -> 10
          [] e = "sadness"  -> 8
          [] e = "anger"    -> 12
          [] e = "fear"     -> 9
          [] e = "surprise" -> 15
          [] e = "interest" -> 11]

\* emotional_constraints: (source, target, inhibition factor times 10)
emotional_constraints ==
    << <<"joy", "sadness", 7>>, <<"sadness", "joy", 5>>, <<"anger", "fear", 3>>,
       <<"fear", "anger", 3>>, <<"surprise", "sadness", 4>>,
       <<"interest", "anger", 2>> >>

\* analyze_text, the intensity of one emotion.  The text is given by what
\* the substring searches find in it: words[e] trigger words (0.3 each) and
\* patterns[e] symbols (0.2 each), and by its length.
Intensity(text, author, e) ==
    LET base == 60 * text.words[e] + 40 * text.patterns[e]
        authorFactor == IF author = "user" THEN 12
                        ELSE IF author = "kairo" THEN 8 ELSE 10
        lengthFactor == Min(150, text.len)
    IN  (base * multiplier[e] * authorFactor * lengthFactor) \div 10000

\* analyze_text: the adjustments dict (only intensities above 0.1)
analyze_text(text, author) ==
    IF text.len = 0 THEN << >>
    ELSE LET hit == {e \in Emotions : Intensity(text, author, e) > 20}
         IN  [e \in hit |-> Intensity(text, author, e)]

\* the decayed value without the stop at the baseline
DecayNewValue_PastBaseline(emotion, current_value, secs) ==
    LET decay_amount == (decay_rates[emotion] * secs) \div 60
    IN  IF emotion \in {"joy", "interest"}
        THEN IF current_value > 1000
             THEN current_value - decay_amount
             ELSE IF current_value < 1000
                  THEN current_value + decay_amount
                  ELSE current_value
        ELSE IF current_value > 0
             THEN current_value - decay_amount
             ELSE current_value

\* _apply_emotional_decay, the loop body for one emotion: the new value the
\* tick computes from the snapshot value after secs seconds
\* (time_delta_minutes = secs / 60).
DecayNewValue(emotion, current_value, secs) ==
    LET decay_amount == (decay_rates[emotion] * secs) \div 60
    IN  IF emotion \in {"joy", "interest"}
        THEN IF current_value > 1000
             THEN Max(1000, current_value - decay_amount)
             ELSE IF current_value < 1000
                  THEN Min(1000, current_value + decay_amount)
                  ELSE current_value
        ELSE IF current_value > 0
             THEN Max(0, current_value - decay_amount)
             ELSE current_value

\* the delta the tick passes to update_emotional_state, 0 when it makes no call
DecayDelta(emotion, current_value, secs) ==
    LET new_value == DecayNewValue(emotion, current_value, secs)
    IN  IF Abs(new_value - current_value) > 2
        THEN new_value - current_value
        ELSE 0

\* the position in EmotionOrder, from i on, of the next emotion for which the
\* tick calls the store or raises; Len + 1 when there is none
RECURSIVE NextDecayIdx(_, _, _)
NextDecayIdx(snapshot, secs, i) ==
    IF i > Len(EmotionOrder) THEN i
    ELSE LET v == DictGet(snapshot, EmotionOrder[i], 0)
         IN  IF ~IsNumber(v) THEN i
             ELSE IF DecayDelta(EmotionOrder[i], v, secs) # 0 THEN i
             ELSE NextDecayIdx(snapshot, secs, i + 1)

\* _apply_emotion_adjustments: the next adjusted emotion, in dict order
RECURSIVE NextAdjustIdx(_, _)
NextAdjustIdx(adjustments, i) ==
    IF i > Len(EmotionOrder) THEN i
    ELSE IF EmotionOrder[i] \in DOMAIN adjustments THEN i
    ELSE NextAdjustIdx(adjustments, i + 1)

\* _apply_emotional_constraints: does triple i fire, given the triggered
\* emotions and the snapshot read at the start of the pass
ConstraintFires(triggered, current_state, i) ==
    LET c == emotional_constraints[i]
    IN  /\ c[1] \in DOMAIN triggered
        /\ triggered[c[1]] > 0
        /\ ~IsNumber(DictGet(current_state, c[2], 0))
           \/ DictGet(current_state, c[2], 0) > 0

RECURSIVE NextConstraintIdx(_, _, _)
NextConstraintIdx(triggered, current_state, i) ==
    IF i > Len(emotional_constraints) THEN i
    ELSE IF ConstraintFires(triggered, current_state, i) THEN i
    ELSE NextConstraintIdx(triggered, current_state, i + 1)

\* reduction = triggered[emotion1] * inhibition_factor
Reduction(triggered, i) ==
    (triggered[emotional_constraints[i][1]] * emotional_constraints[i][3]) \div 10

-----------------------------------------------------------------------------
(* Bounds and inputs of the model *)

MaxOps == 2

StartClock == 1000

MaxClock == 1060

ClockSteps == {60}

\* names carried by calls: known emotions and traits, and arbitrary keys of
\* an action parameter
InputEmotions == {"joy", "love"}

InputTraits == {"curiosity", "charisma"}

\* deltas of the calls of the full system: -10.0, 0.25, 3.0
Deltas == {0 - 2000, 50, 600}

\* deltas of the store calls checked alone:
\* -10.0, -0.005, 0, 0.01, 0.25, 3.0, 10.0, and a value that is not a number
StoreDeltas == {0 - 2000, 0 - 1, 0, 2, 50, 600, 2000, NonNumeric}

TriggerEmotions == {"anger", "love"}

Intensities == {600}

Authors == {"user", "kairo"}

NoHits == [e \in Emotions |-> 0]

\* "Estou triste e preocupado com isso...", a long angry text with "!!!",
\* and the empty text
Texts ==
    { [words |-> [NoHits EXCEPT !["sadness"] = 1, !["fear"] = 1],
       patterns |-> NoHits, len |-> 37],
      [words |-> [NoHits EXCEPT !["anger"] = 4],
       patterns |-> [NoHits EXCEPT !["joy"] = 1, !["anger"] = 1], len |-> 188],
      [words |-> NoHits, patterns |-> NoHits, len |-> 0] }

TraitPairs(v) ==
    [i \in 1..Len(TraitOrder) |->
        <<TraitOrder[i], IF i = 1 THEN v ELSE initial_traits[TraitOrder[i]]>>]

EmotionPairs(v) ==
    [i \in 1..Len(EmotionOrder) |->
        <<EmotionOrder[i], IF i = 1 THEN v ELSE default_values[EmotionOrder[i]]>>]

\* a record of the memory collection as an earlier run saved it
SavedMemory ==
    [id |-> <<"", 0, 0>>, timestamp |-> <<"str", 0>>, importance |-> 100,
     op |-> "add_interaction"]

\* kairo_state.json at start-up: absent, as saved by an earlier run, with
\* out-of-range numbers, with a value that is not a number, not JSON at all
Snapshots ==
    { [exists |-> FALSE, parses |-> TRUE,
       personality_traits |-> << >>, emotional_state |-> << >>,
       memories |-> << >>, interaction_count |-> 0],
      [exists |-> TRUE, parses |-> TRUE,
       personality_traits |-> TraitPairs(600), emotional_state |-> EmotionPairs(1400),
       memories |-> <<SavedMemory>>, interaction_count |-> 1],
      [exists |-> TRUE, parses |-> TRUE,
       personality_traits |-> TraitPairs(10000), emotional_state |-> EmotionPairs(0 - 200),
       memories |-> << >>, interaction_count |-> 0],
      [exists |-> TRUE, parses |-> TRUE,
       personality_traits |-> TraitPairs(NonNumeric), emotional_state |-> EmotionPairs(10000),
       memories |-> <<SavedMemory>>, interaction_count |-> 1],
      [exists |-> TRUE, parses |-> FALSE,
       personality_traits |-> << >>, emotional_state |-> << >>,
       memories |-> << >>, interaction_count |-> 0] }

-----------------------------------------------------------------------------
(* The store and its callers: one action per call *)

NoOp == [n |-> 0, op |-> "none", name |-> "", delta |-> 0, before |-> 0,
         had |-> FALSE, ret |-> << >>, raised |-> FALSE, caller |-> ""]

DecaySleep == [pc |-> "sleep", current_time |-> 0, secs |-> 0,
               current_state |-> << >>, i |-> 0]

\* the foreground pass of _apply_emotion_adjustments: where it is, its
\* adjustments, the snapshot of the constraints, and the state it started from
FgIdle == [pc |-> "idle", adjustments |-> << >>, current_state |-> << >>, i |-> 0,
           start |-> << >>]

NotHeld == [kind |-> "none", live |-> FALSE, value |-> << >>, taken |-> << >>,
            writes |-> 0]

\* StateManager.__init__ for the memory, the profiles and the save time
MemIdle ==
    /\ memories = << >>
    /\ important_memories = << >>
    /\ interaction_count = 0
    /\ now_ms = 0
    /\ user_profiles = << >>
    /\ last_save_time = StartClock
    /\ held = NotHeld
    /\ learning_history = << >>
    /\ maestro = << >>
    /\ idle = << >>

ConcIdle ==
    /\ lock = [owner |-> "none", count |-> 0]
    /\ threads = << >>
    /\ files = << >>
    /\ access = << >>
    /\ MemIdle

Init ==
    /\ emotional_state = default_values
    /\ personality_traits = initial_traits
    /\ emotion_log = << >>
    /\ personality_log = << >>
    /\ emotion_log_times = << >>
    /\ now = StartClock
    /\ last_decay_time = StartClock
    /\ decay = DecaySleep
    /\ fg = FgIdle
    /\ phase = "boot"
    /\ last_op = NoOp
    /\ nops = 0
    /\ ConcIdle

\* StateManager.initialize: _load_kairo_state
Initialize(snapshot) ==
    /\ phase = "boot"
    /\ LET r == load_kairo_state(snapshot)
       IN  /\ emotional_state' = r.emotional_state
           /\ personality_traits' = r.personality_traits
           /\ memories' = r.memories
           /\ interaction_count' = r.interaction_count
           /\ last_op' = [NoOp EXCEPT !.n = last_op.n + 1, !.op = "load_kairo_state",
                                      !.raised = r.raised]
    /\ phase' = "running"
    /\ UNCHANGED <<emotion_log, personality_log, emotion_log_times, now,
                   last_decay_time, decay, fg, nops, lock, threads, files,
                   access, now_ms, important_memories, profileVars>>

\* a call of StateManager.update_emotional_state, the whole body under the lock
CallUpdateEmotion(emotion, delta, caller) ==
    LET r == update_emotional_state(emotional_state, emotion_log,
                                    emotion_log_times, now, emotion, delta)
    IN  /\ emotional_state' = r.es
        /\ emotion_log' = r.log
        /\ emotion_log_times' = r.times
        /\ last_op' = [n |-> last_op.n + 1, op |-> "update_emotional_state",
                       name |-> emotion, delta |-> delta,
                       before |-> DictGet(emotional_state, emotion, 0),
                       had |-> emotion \in DOMAIN emotional_state,
                       ret |-> r.ret, raised |-> r.raised, caller |-> caller]
        /\ UNCHANGED <<personality_traits, personality_log>>

\* a call of StateManager.update_personality_trait
CallUpdateTrait(trait, delta, caller) ==
    LET r == update_personality_trait(personality_traits, personality_log,
                                      trait, delta)
    IN  /\ personality_traits' = r.pt
        /\ personality_log' = r.log
        /\ last_op' = [n |-> last_op.n + 1, op |-> "update_personality_trait",
                       name |-> trait, delta |-> delta,
                       before |-> DictGet(personality_traits, trait, 1000),
                       had |-> trait \in DOMAIN personality_traits,
                       ret |-> r.ret, raised |-> r.raised, caller |-> caller]
        /\ UNCHANGED <<emotional_state, emotion_log, emotion_log_times>>

\* ActionExecutor._handle_adjust_emotion with parameter {emotion: value}
HandleAdjustEmotion(emotion, value) ==
    /\ phase = "running"
    /\ nops < MaxOps
    /\ nops' = nops + 1
    /\ IF IsNumber(value)
       THEN CallUpdateEmotion(emotion, value, "self_adjustment")
       ELSE /\ last_op' = [NoOp EXCEPT !.n = last_op.n + 1, !.op = "adjust_emotion",
                                       !.name = emotion, !.delta = value]
            /\ UNCHANGED storeVars
    /\ UNCHANGED <<now, last_decay_time, decay, fg, phase, concVars>>

\* ActionExecutor._handle_update_personality with parameter {trait: value}
HandleUpdatePersonality(trait, value) ==
    /\ phase = "running"
    /\ nops < MaxOps
    /\ nops' = nops + 1
    /\ IF IsNumber(value)
       THEN CallUpdateTrait(trait, value, "self_adjustment")
       ELSE /\ last_op' = [NoOp EXCEPT !.n = last_op.n + 1, !.op = "update_personality",
                                       !.name = trait, !.delta = value]
            /\ UNCHANGED storeVars
    /\ UNCHANGED <<now, last_decay_time, decay, fg, phase, concVars>>

\* time passes
AdvanceClock(dt) ==
    /\ now + dt <= MaxClock
    /\ now' = now + dt
    /\ UNCHANGED <<storeVars, last_decay_time, decay, fg, phase, last_op, nops,
                   concVars>>

-----------------------------------------------------------------------------
(* EmotionEngine: the foreground analysis pass and the decay thread *)

\* start of _apply_emotion_adjustments(adjustments, reason)
StartAdjustments(adjustments) ==
    fg' = [pc |-> "adjust", adjustments |-> adjustments,
           current_state |-> << >>, i |-> 1, start |-> emotional_state]

\* EmotionEngine.trigger_emotion: an unknown emotion is refused
TriggerEmotion(emotion, intensity) ==
    /\ phase = "running"
    /\ fg.pc = "idle"
    /\ nops < MaxOps
    /\ nops' = nops + 1
    /\ IF emotion \in Emotions
       THEN StartAdjustments([e \in {emotion} |-> intensity])
       ELSE fg' = fg
    /\ last_op' = [NoOp EXCEPT !.n = last_op.n + 1, !.op = "trigger_emotion",
                               !.name = emotion, !.delta = intensity]
    /\ UNCHANGED <<storeVars, now, last_decay_time, decay, phase, concVars>>

\* EmotionEngine.analyze_text: computes the adjustments and, when there are
\* some, starts applying them
AnalyzeText(text, author) ==
    /\ phase = "running"
    /\ fg.pc = "idle"
    /\ nops < MaxOps
    /\ nops' = nops + 1
    /\ LET adjustments == analyze_text(text, author)
       IN  IF DOMAIN adjustments # {}
           THEN StartAdjustments(adjustments)
           ELSE fg' = fg
    /\ last_op' = [NoOp EXCEPT !.n = last_op.n + 1, !.op = "analyze_text",
                               !.name = author, !.delta = text.len]
    /\ UNCHANGED <<storeVars, now, last_decay_time, decay, phase, concVars>>

\* _apply_emotion_adjustments: the next direct update
FgAdjust ==
    /\ fg.pc = "adjust"
    /\ LET j == NextAdjustIdx(fg.adjustments, fg.i)
       IN  /\ j <= Len(EmotionOrder)
           /\ CallUpdateEmotion(EmotionOrder[j], fg.adjustments[EmotionOrder[j]],
                                "analysis")
           /\ fg' = IF ~IsNumber(DictGet(emotional_state, EmotionOrder[j], 0))
                    THEN FgIdle
                    ELSE [fg EXCEPT !.i = j + 1]
    /\ UNCHANGED <<now, last_decay_time, decay, phase, nops, concVars>>

\* _apply_emotional_constraints: reads the state once, after the direct updates
FgReadState ==
    /\ fg.pc = "adjust"
    /\ NextAdjustIdx(fg.adjustments, fg.i) > Len(EmotionOrder)
    /\ LET current_state == get_emotional_state(emotional_state)
       IN  fg' = IF NextConstraintIdx(fg.adjustments, current_state, 1)
                        > Len(emotional_constraints)
                 THEN FgIdle
                 ELSE [fg EXCEPT !.pc = "constrain",
                                 !.current_state = current_state, !.i = 1]
    /\ UNCHANGED <<storeVars, now, last_decay_time, decay, phase, last_op, nops,
                   concVars>>

\* _apply_emotional_constraints: the next triple that fires
FgConstrain ==
    /\ fg.pc = "constrain"
    /\ LET j == NextConstraintIdx(fg.adjustments, fg.current_state, fg.i)
           target == emotional_constraints[j][2]
           done == NextConstraintIdx(fg.adjustments, fg.current_state, j + 1)
                      > Len(emotional_constraints)
       IN  /\ j <= Len(emotional_constraints)
           /\ IF ~IsNumber(DictGet(fg.current_state, target, 0))
              THEN /\ fg' = FgIdle
                   /\ UNCHANGED <<storeVars, last_op>>
              ELSE /\ CallUpdateEmotion(target, 0 - Reduction(fg.adjustments, j),
                                        "inhibition")
                   /\ fg' = IF done \/ ~IsNumber(DictGet(emotional_state, target, 0))
                            THEN FgIdle
                            ELSE [fg EXCEPT !.i = j + 1]
    /\ UNCHANGED <<now, last_decay_time, decay, phase, nops, concVars>>

\* _decay_loop after its sleep: applies the decay when at least a minute has
\* passed since the last one, reading the state once
DecayWake ==
    /\ phase = "running"
    /\ decay.pc = "sleep"
    /\ LET secs == now - last_decay_time
           current_state == get_emotional_state(emotional_state)
       IN  IF secs >= 60
           THEN /\ decay' = [pc |-> "apply", current_time |-> now, secs |-> secs,
                             current_state |-> current_state, i |-> 1]
                /\ last_decay_time' = last_decay_time
           ELSE /\ decay' = [DecaySleep EXCEPT !.current_time = now, !.secs = secs]
                /\ decay' # decay
                /\ last_decay_time' = last_decay_time
    /\ UNCHANGED <<storeVars, now, fg, phase, last_op, nops, concVars>>

\* _apply_emotional_decay: the next emotion whose decay is significant; after
\* the last one the loop records the time of the tick.  A value that is not a
\* number raises in the comparison, and the loop's handler ends the tick.
DecayStep ==
    /\ decay.pc = "apply"
    /\ LET j == NextDecayIdx(decay.current_state, decay.secs, decay.i)
       IN  IF j > Len(EmotionOrder)
           THEN /\ last_decay_time' = decay.current_time
                /\ decay' = [DecaySleep EXCEPT !.current_time = decay.current_time,
                                               !.secs = decay.secs]
                /\ UNCHANGED <<storeVars, last_op>>
           ELSE LET emotion == EmotionOrder[j]
                    current_value == DictGet(decay.current_state, emotion, 0)
                IN  IF ~IsNumber(current_value)
                    THEN /\ decay' = [DecaySleep EXCEPT
                                        !.current_time = decay.current_time,
                                        !.secs = decay.secs]
                         /\ UNCHANGED <<storeVars, last_op, last_decay_time>>
                    ELSE /\ CallUpdateEmotion(emotion,
                                DecayDelta(emotion, current_value, decay.secs),
                                "natural_decay")
                         /\ decay' = [decay EXCEPT !.i = j + 1]
                         /\ UNCHANGED last_decay_time
    /\ UNCHANGED <<now, fg, phase, nops, concVars>>

Next ==
    \/ \E snapshot \in Snapshots : Initialize(snapshot)
    \/ \E emotion \in InputEmotions, value \in Deltas :
          HandleAdjustEmotion(emotion, value)
    \/ \E trait \in InputTraits, value \in Deltas :
          HandleUpdatePersonality(trait, value)
    \/ \E emotion \in TriggerEmotions, intensity \in Intensities :
          TriggerEmotion(emotion, intensity)
    \/ \E text \in Texts, author \in Authors : AnalyzeText(text, author)
    \/ FgAdjust
    \/ FgReadState
    \/ FgConstrain
    \/ DecayWake
    \/ DecayStep
    \/ \E dt \in ClockSteps : AdvanceClock(dt)

Spec == Init /\ [][Next]_vars

-----------------------------------------------------------------------------
(* The store alone: the state after StateManager.initialize, then calls of *)
(* the two update functions in any order; the memory collection plays no   *)
(* part in these calls and is left out                                     *)

InitStore ==
    /\ \E snapshot \in Snapshots :
          LET r == load_kairo_state(snapshot)
          IN  /\ emotional_state = r.emotional_state
              /\ personality_traits = r.personality_traits
    /\ emotion_log = << >>
    /\ personality_log = << >>
    /\ emotion_log_times = << >>
    /\ now = StartClock
    /\ last_decay_time = StartClock
    /\ decay = DecaySleep
    /\ fg = FgIdle
    /\ phase = "running"
    /\ last_op = NoOp
    /\ nops = 0
    /\ ConcIdle

NextStore ==
    \/ \E emotion \in InputEmotions, value \in StoreDeltas :
          HandleAdjustEmotion(emotion, value)
    \/ \E trait \in InputTraits, value \in StoreDeltas :
          HandleUpdatePersonality(trait, value)
    \/ \E dt \in ClockSteps : AdvanceClock(dt)

SpecStore == InitStore /\ [][NextStore]_vars

-----------------------------------------------------------------------------
(* Threads and StateManager.lock: the calls step by step.  The foreground  *)
(* thread and a background thread (idle processor, auto-save) each make    *)
(* calls of the store; a `with self.lock` block takes the lock at its      *)
(* start and gives it back at its end.                                     *)

ThreadIds == {"foreground", "background"}

MaxCalls == 1

BackupKeep == 5

ConcNames == {"joy"}

ConcTraits == {"curiosity"}

\* 3.0, -10.0, 0.25
ConcDeltas == {600, 0 - 2000, 50}

ThreadIdle == [pc |-> "idle", op |-> "none", name |-> "", delta |-> 0,
               old_value |-> 0, history |-> << >>]

NoAccess == [thread |-> "none", target |-> "", kind |-> "", locked |-> FALSE]

\* kairo_state.json (exists, saved: what it holds) and the backup files:
\* name is the second in kairo_state_backup_<second>.json, content what the
\* backup holds, created the number of the rename that made it
NoFiles == [exists |-> FALSE, saved |-> << >>, backups |-> {}, ncreated |-> 0]

\* what json.dump(self.kairo_state, f) writes
StateContent ==
    [emotional_state |-> emotional_state, personality_traits |-> personality_traits,
     memories |-> memories, interaction_count |-> interaction_count]

\* a file that open(..., 'w') truncated and json.dump did not finish
PartialContent == [partial |-> TRUE]

\* state_file.rename(backup_file): a backup of the same name is replaced
RenameToBackup(f, clock) ==
    [f EXCEPT !.exists = FALSE,
              !.saved = << >>,
              !.backups = {b \in @ : b.name # clock}
                            \cup {[name |-> clock, content |-> f.saved,
                                   created |-> f.ncreated + 1]},
              !.ncreated = @ + 1]

\* for old_backup in sorted(glob)[:-5]: old_backup.unlink()
PruneBackups(f) ==
    [f EXCEPT !.backups =
        {b \in @ : Cardinality({c \in f.backups : c.name > b.name}) < BackupKeep}]

\* with open(state_file, 'w') as f: json.dump(self.kairo_state, f)
DumpState(f, content) == [f EXCEPT !.exists = TRUE, !.saved = content]

InitConc ==
    /\ emotional_state = default_values
    /\ personality_traits = initial_traits
    /\ emotion_log = << >>
    /\ personality_log = << >>
    /\ emotion_log_times = << >>
    /\ now = StartClock
    /\ last_decay_time = StartClock
    /\ decay = DecaySleep
    /\ fg = FgIdle
    /\ phase = "running"
    /\ last_op = NoOp
    /\ nops = 0
    /\ lock = [owner |-> "none", count |-> 0]
    /\ threads = [t \in ThreadIds |-> ThreadIdle]
    /\ files = NoFiles
    /\ access = NoAccess
    /\ MemIdle

restVars == <<now, last_decay_time, decay, fg, phase, last_op, nops, memVars,
              profileVars>>

\* a lock that never makes a thread wait
LockAvailable_NeverWaits(t) == t \in ThreadIds

\* threading.RLock: free, or already held by the calling thread
LockAvailable(t) == lock.owner = "none" \/ lock.owner = t

Acquired(t) == [owner |-> t, count |-> lock.count + 1]

Released(t) ==
    IF lock.owner = t
    THEN IF lock.count > 1 THEN [lock EXCEPT !.count = lock.count - 1]
         ELSE [owner |-> "none", count |-> 0]
    ELSE lock

Finish(t) ==
    [threads EXCEPT ![t] = [ThreadIdle EXCEPT !.history =
        Append(threads[t].history,
               [op |-> threads[t].op, name |-> threads[t].name,
                delta |-> threads[t].delta])]]

Accessed(t, target, kind) ==
    [thread |-> t, target |-> target, kind |-> kind, locked |-> lock.owner = t]

\* a thread enters update_emotional_state, update_personality_trait or
\* save_state: the next thing it does is take the lock
StartLocked(t, op, name, delta) ==
    /\ threads[t].pc = "idle"
    /\ Len(threads[t].history) < MaxCalls
    /\ threads' = [threads EXCEPT ![t] = [@ EXCEPT !.pc = "acquire", !.op = op,
                                            !.name = name, !.delta = delta]]
    /\ UNCHANGED <<storeVars, restVars, lock, files, access>>

\* with self.lock:
Acquire(t) ==
    /\ threads[t].pc = "acquire"
    /\ LockAvailable(t)
    /\ lock' = Acquired(t)
    /\ threads' = [threads EXCEPT ![t].pc =
          IF threads[t].op = "save_state"
          THEN IF files.exists THEN "rename" ELSE "dump"
          ELSE "read"]
    /\ UNCHANGED <<storeVars, restVars, files, access>>

\* old_value = self.kairo_state[...].get(name, default)
ReadOld(t) ==
    /\ threads[t].pc = "read"
    /\ threads' = [threads EXCEPT ![t] = [@ EXCEPT !.pc = "write", !.old_value =
          IF threads[t].op = "update_emotional_state"
          THEN DictGet(emotional_state, threads[t].name, 0)
          ELSE DictGet(personality_traits, threads[t].name, 1000)]]
    /\ access' = Accessed(t, IF threads[t].op = "update_emotional_state"
                             THEN "emotional_state" ELSE "personality_traits",
                          "read")
    /\ UNCHANGED <<storeVars, restVars, lock, files>>

\* the rest of the with block: clamp, write, log; then the lock is given back
WriteNew(t) ==
    /\ threads[t].pc = "write"
    /\ IF threads[t].op = "update_emotional_state"
       THEN LET r == UpdateEmotionFrom(emotional_state, emotion_log,
                        emotion_log_times, now, threads[t].name,
                        threads[t].delta, threads[t].old_value)
            IN  /\ emotional_state' = r.es
                /\ emotion_log' = r.log
                /\ emotion_log_times' = r.times
                /\ UNCHANGED <<personality_traits, personality_log>>
       ELSE LET r == UpdateTraitFrom(personality_traits, personality_log,
                        threads[t].name, threads[t].delta, threads[t].old_value)
            IN  /\ personality_traits' = r.pt
                /\ personality_log' = r.log
                /\ UNCHANGED <<emotional_state, emotion_log, emotion_log_times>>
    /\ access' = Accessed(t, IF threads[t].op = "update_emotional_state"
                             THEN "emotional_state" ELSE "personality_traits",
                          "write")
    /\ lock' = Released(t)
    /\ threads' = Finish(t)
    /\ UNCHANGED <<restVars, files>>

\* get_emotional_state: copies the dict; the function takes no lock
GetEmotionalState(t) ==
    /\ threads[t].pc = "idle"
    /\ Len(threads[t].history) < MaxCalls
    /\ access' = Accessed(t, "emotional_state", "read")
    /\ threads' = [threads EXCEPT ![t].history =
          Append(@, [op |-> "get_emotional_state", name |-> "", delta |-> 0])]
    /\ UNCHANGED <<storeVars, restVars, lock, files>>

\* save_state: state_file.rename(backup_file), the backup named by the second
SaveRename(t) ==
    /\ threads[t].pc = "rename"
    /\ files' = RenameToBackup(files, now)
    /\ threads' = [threads EXCEPT ![t].pc = "prune"]
    /\ UNCHANGED <<storeVars, restVars, lock, access>>

\* save_state: unlink all but the BackupKeep newest backups
SavePrune(t) ==
    /\ threads[t].pc = "prune"
    /\ files' = PruneBackups(files)
    /\ threads' = [threads EXCEPT ![t].pc = "dump"]
    /\ UNCHANGED <<storeVars, restVars, lock, access>>

\* save_state: json.dump(self.kairo_state, f) and last_save_time = time.time();
\* then the lock is given back
SaveDump(t) ==
    /\ threads[t].pc = "dump"
    /\ files' = DumpState(files, StateContent)
    /\ last_save_time' = now
    /\ access' = Accessed(t, "kairo_state", "read")
    /\ lock' = Released(t)
    /\ threads' = Finish(t)
    /\ UNCHANGED <<storeVars, now, last_decay_time, decay, fg, phase, last_op,
                   nops, memVars, user_profiles, held, coreVars>>

ClockConc(dt) ==
    /\ now + dt <= MaxClock
    /\ now' = now + dt
    /\ UNCHANGED <<storeVars, last_decay_time, decay, fg, phase, last_op, nops,
                   concVars>>

NextConc ==
    \/ \E t \in ThreadIds, name \in ConcNames, delta \in ConcDeltas :
          StartLocked(t, "update_emotional_state", name, delta)
    \/ \E t \in ThreadIds, name \in ConcTraits, delta \in ConcDeltas :
          StartLocked(t, "update_personality_trait", name, delta)
    \/ \E t \in ThreadIds : StartLocked(t, "save_state", "", 0)
    \/ \E t \in ThreadIds : Acquire(t)
    \/ \E t \in ThreadIds : ReadOld(t)
    \/ \E t \in ThreadIds : WriteNew(t)
    \/ \E t \in ThreadIds : GetEmotionalState(t)
    \/ \E t \in ThreadIds : SaveRename(t)
    \/ \E t \in ThreadIds : SavePrune(t)
    \/ \E t \in ThreadIds : SaveDump(t)
    \/ \E dt \in ClockSteps : ClockConc(dt)

SpecConc == InitConc /\ [][NextConc]_vars

-----------------------------------------------------------------------------
(* The decay thread alone: ticks of _decay_loop from a range of starting    *)
(* values and after a range of elapsed times.                               *)

\* -1.0, 0.0, 0.01, 4.95, 5.0, 5.02, 5.5, 10.0, 50.0
StartValues == {0 - 200, 0, 2, 990, 1000, 1004, 1100, 2000, 10000}

\* seconds the clock moves between two looks at it
DecayClockSteps == {60, 300}

DecayMaxClock == 1360

Baseline(emotion) == IF emotion \in {"joy", "interest"} THEN 1000 ELSE 0

InitDecay ==
    /\ \E a \in StartValues, b \in StartValues :
          emotional_state = [e \in Emotions |->
                                IF e \in {"joy", "interest"} THEN a ELSE b]
    /\ personality_traits = initial_traits
    /\ emotion_log = << >>
    /\ personality_log = << >>
    /\ emotion_log_times = << >>
    /\ now = StartClock
    /\ last_decay_time = StartClock
    /\ decay = DecaySleep
    /\ fg = FgIdle
    /\ phase = "running"
    /\ last_op = NoOp
    /\ nops = 0
    /\ ConcIdle

\* time passes while the decay thread sleeps
DecayClock(dt) ==
    /\ decay.pc = "sleep"
    /\ now + dt <= DecayMaxClock
    /\ now' = now + dt
    /\ UNCHANGED <<storeVars, last_decay_time, decay, fg, phase, last_op, nops,
                   concVars>>

NextDecay ==
    \/ \E dt \in DecayClockSteps : DecayClock(dt)
    \/ DecayWake
    \/ DecayStep

SpecDecay == InitDecay /\ [][NextDecay]_vars

-----------------------------------------------------------------------------
(* The decay thread under an irregular clock: the wall clock may be set     *)
(* back, or jump ahead by a year, between two looks of _decay_loop at it.   *)

\* seconds in a year: an elapsed time no 60-second timer can see honestly
AbsurdSeconds == 31536000

AnomalyClockSteps == {0 - 60, 60, AbsurdSeconds}

\* the clock readings: at most AnomalyDrift minutes off the start, before or
\* after the jump of a year
AnomalyDrift == 1

AnomalyClocks ==
    {StartClock + k * 60 + j * AbsurdSeconds :
        k \in (0 - AnomalyDrift)..AnomalyDrift, j \in 0..1}

\* 5.0 and 5.5 for joy and interest, 0.0 and 3.0 for the others
AnomalyStartValues == <<{1000, 1100}, {0, 600}>>

InitAnomaly ==
    /\ InitDecay
    /\ emotional_state["joy"] \in AnomalyStartValues[1]
    /\ emotional_state["sadness"] \in AnomalyStartValues[2]

\* time.time() between two wake-ups, under a clock that is not monotonic
ClockJump(dt) ==
    /\ decay.pc = "sleep"
    /\ now + dt \in AnomalyClocks
    /\ now' = now + dt
    /\ UNCHANGED <<storeVars, last_decay_time, decay, fg, phase, last_op, nops,
                   concVars>>

NextAnomaly ==
    \/ \E dt \in AnomalyClockSteps : ClockJump(dt)
    \/ DecayWake
    \/ DecayStep

SpecAnomaly == InitAnomaly /\ [][NextAnomaly]_vars

-----------------------------------------------------------------------------
(* The memory collection: add_interaction, add_memory, _consolidate_memories *)

\* MEMORY_CONFIG["max_conversation_history"], scaled down from 1000
max_conversation_history == 3

\* the window memories[-100:] of _consolidate_memories, scaled down from 100
RecentWindow == 2

\* MEMORY_CONFIG.get("max_memories", 1000) of add_memory, scaled down from 1000
max_memories == 3

\* MEMORY_CONFIG["importance_threshold"], 0.7
importance_threshold == 140

\* what _calculate_importance looks at in a content
PlainContent == [long |-> FALSE, keyword |-> FALSE, question |-> FALSE,
                 emotional |-> FALSE]

MemContents == {PlainContent, [PlainContent EXCEPT !.question = TRUE]}

MemAuthors == {"user", "kairo"}

MemoryTypes == {"user_message"}

MaxMemCalls == 5

MaxMs == 1

\* _calculate_importance(content, author)
calculate_importance(content, author) ==
    Min(200, 100 + (IF content.long THEN 40 ELSE 0)
                 + (IF content.keyword THEN 60 ELSE 0)
                 + (IF author = "user" THEN 20 ELSE 0)
                 + (IF content.question THEN 40 ELSE 0)
                 + (IF content.emotional THEN 60 ELSE 0))

\* memories[-n:]
LastN(mems, n) == SubSeq(mems, Max(1, Len(mems) - n + 1), Len(mems))

\* the loop over important + recent that skips every id already seen
DedupById(combined) ==
    LET keep == {i \in 1..Len(combined) :
                    \A j \in 1..(i - 1) : combined[j].id # combined[i].id}
        Pos(k) == CHOOSE i \in keep : Cardinality({j \in keep : j < i}) = k - 1
    IN  [k \in 1..Cardinality(keep) |-> combined[Pos(k)]]

\* list.sort(key=timestamp) compares a str with a float: TypeError
MixedTimestamps(mems) ==
    \E i, j \in 1..Len(mems) : mems[i].timestamp[1] # mems[j].timestamp[1]

\* list.sort(key=timestamp), stable: position k holds the element with k - 1
\* elements before it, by timestamp and then by place in the list
SortByTimestamp(mems) ==
    LET Before(i, j) == \/ mems[i].timestamp[2] < mems[j].timestamp[2]
                        \/ (mems[i].timestamp[2] = mems[j].timestamp[2] /\ i < j)
        Pos(k) == CHOOSE i \in 1..Len(mems) :
                     Cardinality({j \in 1..Len(mems) : Before(j, i)}) = k - 1
    IN  [k \in 1..Len(mems) |-> mems[Pos(k)]]

\* _consolidate_memories: the new list, or the old one left in place when the
\* sort raises
consolidate_memories(mems) ==
    LET important == SelectSeq(mems, LAMBDA r : r.importance >= importance_threshold)
        recent == LastN(mems, RecentWindow)
        consolidated == DedupById(important \o recent)
    IN  IF MixedTimestamps(consolidated)
        THEN [memories |-> mems, raised |-> TRUE]
        ELSE [memories |-> SortByTimestamp(consolidated), raised |-> FALSE]

\* add_interaction(author, content), the body under the lock; the timestamp
\* is the isoformat string of the instant of the call, instants numbered in
\* the order of the calls
add_interaction(mems, count, ms, instant, author, content) ==
    LET interaction == [id |-> <<"", ms, Len(mems)>>,
                        timestamp |-> <<"str", instant>>,
                        importance |-> calculate_importance(content, author),
                        op |-> "add_interaction"]
        appended == Append(mems, interaction)
        c == IF Len(appended) > max_conversation_history
             THEN consolidate_memories(appended)
             ELSE [memories |-> appended, raised |-> FALSE]
    IN  [memories |-> c.memories, interaction_count |-> count + 1,
         ret |-> IF c.raised THEN << >> ELSE <<interaction>>,
         record |-> interaction, raised |-> c.raised]

\* add_memory(content, memory_type), the body under the lock, for a content
\* without name or age; the timestamp is the float time.time(); the call
\* returns the id of the record
add_memory(mems, ms, instant, content, memory_type) ==
    LET memory == [id |-> <<"mem_", ms, Len(mems)>>,
                   timestamp |-> <<"float", instant>>,
                   importance |-> calculate_importance(content, memory_type),
                   op |-> "add_memory"]
        appended == Append(mems, memory)
    IN  [memories |-> IF Len(appended) > max_memories
                      THEN LastN(appended, max_memories) ELSE appended,
         ret |-> <<[id |-> memory.id]>>, record |-> memory, raised |-> FALSE]

\* add_interaction's update of the cache of important memories: the new
\* record is appended when its importance reaches the threshold
cache_important(cache, interaction) ==
    IF interaction.importance >= importance_threshold
    THEN Append(cache, interaction) ELSE cache

InitMem ==
    /\ emotional_state = default_values
    /\ personality_traits = initial_traits
    /\ emotion_log = << >>
    /\ personality_log = << >>
    /\ emotion_log_times = << >>
    /\ now = StartClock
    /\ last_decay_time = StartClock
    /\ decay = DecaySleep
    /\ fg = FgIdle
    /\ phase = "running"
    /\ last_op = NoOp
    /\ nops = 0
    /\ ConcIdle

memFrame == <<storeVars, now, last_decay_time, decay, fg, phase, lock, threads,
              files, access, profileVars>>

\* a call of StateManager.add_interaction
AddInteraction(author, content) ==
    /\ nops < MaxMemCalls
    /\ LET r == add_interaction(memories, interaction_count, now_ms, nops + 1,
                                author, content)
       IN  /\ memories' = r.memories
           /\ interaction_count' = r.interaction_count
           /\ important_memories' = cache_important(important_memories, r.record)
           /\ last_op' = [NoOp EXCEPT !.n = last_op.n + 1, !.op = "add_interaction",
                                      !.name = author, !.before = Len(memories),
                                      !.ret = r.ret, !.raised = r.raised]
    /\ nops' = nops + 1
    /\ UNCHANGED <<memFrame, now_ms>>

\* a call of StateManager.add_memory
AddMemory(content, memory_type) ==
    /\ nops < MaxMemCalls
    /\ LET r == add_memory(memories, now_ms, nops + 1, content, memory_type)
       IN  /\ memories' = r.memories
           /\ last_op' = [NoOp EXCEPT !.n = last_op.n + 1, !.op = "add_memory",
                                      !.name = memory_type, !.before = Len(memories),
                                      !.ret = r.ret, !.raised = r.raised]
    /\ nops' = nops + 1
    /\ UNCHANGED <<memFrame, now_ms, interaction_count, important_memories>>

\* the millisecond of time.time() moves on
MsTick ==
    /\ now_ms < MaxMs
    /\ now_ms' = now_ms + 1
    /\ UNCHANGED <<memFrame, memories, interaction_count, important_memories,
                   last_op, nops>>

NextMem ==
    \/ \E author \in MemAuthors, content \in MemContents :
          AddInteraction(author, content)
    \/ \E content \in MemContents, memory_type \in MemoryTypes :
          AddMemory(content, memory_type)
    \/ MsTick

SpecMem == InitMem /\ [][NextMem]_vars

-----------------------------------------------------------------------------
(* Getters and the mappings they hand out: get_emotional_state,             *)
(* EmotionEngine.get_current_state, PersonalityCore.get_current_traits.     *)
(* A handed-out mapping is either a fresh object or the stored dict itself  *)
(* (live); writes through a live mapping are writes of the store, and a     *)
(* live mapping shows every later write of the store.                       *)

MaxHeldWrites == 1

HeldKeys == {"joy", "curiosity"}

\* 1.0
HeldValues == {200}

\* a mapping that is the stored dict itself
EmotionSnapshot_LiveReference(es) ==
    [kind |-> "emotional_state", live |-> TRUE, value |-> es, taken |-> es,
     writes |-> 0]

\* get_emotional_state / get_current_state: kairo_state["emotional_state"].copy()
EmotionSnapshot(es) ==
    [kind |-> "emotional_state", live |-> FALSE, value |-> get_emotional_state(es),
     taken |-> es, writes |-> 0]

\* get_current_traits: a new dict filled by get_personality_trait, one entry
\* for each trait of initial_traits
TraitSnapshot(pt) ==
    LET traits == [t \in Traits |-> get_personality_trait(pt, t)]
    IN  [kind |-> "personality_traits", live |-> FALSE, value |-> traits,
         taken |-> traits, writes |-> 0]

\* what the holder sees in the mapping now
HeldValue ==
    IF held.live
    THEN IF held.kind = "emotional_state" THEN emotional_state
         ELSE personality_traits
    ELSE held.value

snapFrame == <<emotion_log, personality_log, emotion_log_times, now,
               last_decay_time, decay, fg, phase, last_op, nops, lock, threads,
               files, access, memVars, user_profiles, last_save_time,
               coreVars>>

\* a caller takes the emotions from get_current_state
TakeEmotionSnapshot ==
    /\ held' = EmotionSnapshot(emotional_state)
    /\ held' # held
    /\ UNCHANGED <<snapFrame, emotional_state, personality_traits>>

\* a caller takes the traits from get_current_traits
TakeTraitSnapshot ==
    /\ held' = TraitSnapshot(personality_traits)
    /\ held' # held
    /\ UNCHANGED <<snapFrame, emotional_state, personality_traits>>

\* the caller writes key := v into the mapping it holds
MutateHeld(key, v) ==
    /\ held.kind # "none"
    /\ held.writes < MaxHeldWrites
    /\ held' = [held EXCEPT !.value = DictSet(HeldValue, key, v),
                            !.taken = DictSet(@, key, v),
                            !.writes = @ + 1]
    /\ IF held.live /\ held.kind = "emotional_state"
       THEN /\ emotional_state' = DictSet(emotional_state, key, v)
            /\ UNCHANGED personality_traits
       ELSE IF held.live
       THEN /\ personality_traits' = DictSet(personality_traits, key, v)
            /\ UNCHANGED emotional_state
       ELSE UNCHANGED <<emotional_state, personality_traits>>
    /\ UNCHANGED snapFrame

NextSnap ==
    \/ TakeEmotionSnapshot
    \/ TakeTraitSnapshot
    \/ \E key \in HeldKeys, v \in HeldValues : MutateHeld(key, v)
    \/ \E emotion \in InputEmotions, value \in Deltas :
          HandleAdjustEmotion(emotion, value)
    \/ \E trait \in InputTraits, value \in Deltas :
          HandleUpdatePersonality(trait, value)

SpecSnap == InitStore /\ [][NextSnap]_vars

-----------------------------------------------------------------------------
(* Persistence: save_state as a whole, with the steps at which its files    *)
(* can fail, the auto-save thread and shutdown.                             *)

\* MEMORY_CONFIG["auto_save_interval"], seconds
auto_save_interval == 300

\* where a save ends: "ok", or the I/O step that raised (OSError); a rename
\* onto an existing backup name raises on Windows and replaces it elsewhere
SaveOutcomes == {"ok", "rename_fails", "unlink_fails", "open_fails", "dump_fails"}

MaxSaves == 3

SaveClockSteps == {301}

SaveMaxClock == 1603

\* the files a call of save_state leaves
SaveFilesAfter(f, content, clock, outcome) ==
    LET renamed == IF f.exists THEN RenameToBackup(f, clock) ELSE f
        pruned == IF f.exists THEN PruneBackups(renamed) ELSE f
    IN  CASE outcome = "rename_fails" -> f
          [] outcome = "unlink_fails" -> renamed
          [] outcome = "open_fails"   -> pruned
          [] outcome = "dump_fails"   -> DumpState(pruned, PartialContent)
          [] OTHER                    -> DumpState(pruned, content)

\* can save_state end this way from these files
SaveOutcomePossible(f, clock, outcome) ==
    CASE outcome = "rename_fails" -> f.exists
      [] outcome = "unlink_fails" ->
            f.exists /\ PruneBackups(RenameToBackup(f, clock)) # RenameToBackup(f, clock)
      [] OTHER -> TRUE

\* save_state with the time of the save stamped whether or not it succeeded
save_state_StampsFailure(f, content, clock, stamp, outcome) ==
    [files |-> SaveFilesAfter(f, content, clock, outcome),
     last_save_time |-> clock,
     raised |-> FALSE]

\* save_state: the except clause catches every failure and logs it;
\* last_save_time is set after the dump only
save_state(f, content, clock, stamp, outcome) ==
    [files |-> SaveFilesAfter(f, content, clock, outcome),
     last_save_time |-> IF outcome = "ok" THEN clock ELSE stamp,
     raised |-> FALSE]

\* the files an earlier run left: a snapshot and BackupKeep backups
SavedBefore ==
    [exists |-> TRUE,
     saved |-> [emotional_state |-> default_values,
                personality_traits |-> initial_traits,
                memories |-> << >>, interaction_count |-> 0],
     backups |-> {[name |-> StartClock - 10 * k, content |-> << >>,
                   created |-> BackupKeep + 1 - k] : k \in 1..BackupKeep},
     ncreated |-> BackupKeep]

InitSave ==
    /\ emotional_state = default_values
    /\ personality_traits = initial_traits
    /\ emotion_log = << >>
    /\ personality_log = << >>
    /\ emotion_log_times = << >>
    /\ now = StartClock
    /\ last_decay_time = StartClock
    /\ decay = DecaySleep
    /\ fg = FgIdle
    /\ phase = "running"
    /\ last_op = NoOp
    /\ nops = 0
    /\ lock = [owner |-> "none", count |-> 0]
    /\ threads = << >>
    /\ files \in {NoFiles, SavedBefore}
    /\ access = << >>
    /\ MemIdle

saveFrame == <<storeVars, last_decay_time, decay, fg, lock, threads, access,
               memVars, user_profiles, held, coreVars>>

AutoSaveDue == now - last_save_time > auto_save_interval

\* a call of save_state by caller, ending with outcome
CallSaveState(caller, outcome) ==
    /\ nops < MaxSaves
    /\ SaveOutcomePossible(files, now, outcome)
    /\ LET r == save_state(files, StateContent, now, last_save_time, outcome)
       IN  /\ files' = r.files
           /\ last_save_time' = r.last_save_time
           /\ last_op' = [NoOp EXCEPT !.n = last_op.n + 1, !.op = "save_state",
                                      !.name = outcome, !.before = files.ncreated,
                                      !.had = files.exists, !.raised = r.raised,
                                      !.caller = caller]
    /\ nops' = nops + 1

\* auto_save_loop after its sleep: saves when the last save is old enough
AutoSaveWake(outcome) ==
    /\ phase = "running"
    /\ AutoSaveDue
    /\ CallSaveState("auto_save", outcome)
    /\ UNCHANGED <<saveFrame, now, phase>>

\* StateManager.shutdown: a last save, whatever the time
Shutdown(outcome) ==
    /\ phase = "running"
    /\ CallSaveState("shutdown", outcome)
    /\ phase' = "stopped"
    /\ UNCHANGED <<saveFrame, now>>

\* the process starts again on the files it left
Restart ==
    /\ phase = "stopped"
    /\ phase' = "running"
    /\ last_save_time' = now
    /\ UNCHANGED <<saveFrame, now, files, last_op, nops>>

ClockSave(dt) ==
    /\ now + dt <= SaveMaxClock
    /\ now' = now + dt
    /\ UNCHANGED <<saveFrame, phase, files, last_op, nops, last_save_time>>

NextSave ==
    \/ \E outcome \in SaveOutcomes : AutoSaveWake(outcome)
    \/ \E outcome \in SaveOutcomes : Shutdown(outcome)
    \/ Restart
    \/ \E dt \in SaveClockSteps : ClockSave(dt)

SpecSave == InitSave /\ [][NextSave]_vars

-----------------------------------------------------------------------------
(* User profiles: add_user_fact called from the foreground and from the    *)
(* idle thread; the function takes no lock, so each of its statements is a *)
(* step. user_profiles.index is the dict self.user_profiles (user id to    *)
(* the number of a profile object), user_profiles.objects the profile      *)
(* dicts that were created; files holds the facts of each saved profile.   *)

UserIds == {"default_user"}

Facts == {"likes_tea", "has_a_dog"}

MaxFactCalls == 2

ProfileSaveOutcomes == {"ok", "fails"}

FactIdle == [pc |-> "idle", user_id |-> "", fact |-> "", profile |-> 0, calls |-> 0]

NoProfiles == [index |-> << >>, objects |-> << >>]

\* the dict get_user_profile creates
NewProfile(user_id) == [id |-> user_id, facts |-> << >>]

InProfiles(user_id) == user_id \in DOMAIN user_profiles.index

\* fact in profile["facts"]
HasFact(profile, fact) == \E i \in 1..Len(profile.facts) : profile.facts[i] = fact

InitFacts ==
    /\ emotional_state = default_values
    /\ personality_traits = initial_traits
    /\ emotion_log = << >>
    /\ personality_log = << >>
    /\ emotion_log_times = << >>
    /\ now = StartClock
    /\ last_decay_time = StartClock
    /\ decay = DecaySleep
    /\ fg = FgIdle
    /\ phase = "running"
    /\ last_op = NoOp
    /\ nops = 0
    /\ lock = [owner |-> "none", count |-> 0]
    /\ threads = [t \in ThreadIds |-> FactIdle]
    /\ files = << >>
    /\ access = NoAccess
    /\ memories = << >>
    /\ important_memories = << >>
    /\ interaction_count = 0
    /\ now_ms = 0
    /\ user_profiles = NoProfiles
    /\ last_save_time = StartClock
    /\ held = NotHeld
    /\ learning_history = << >>
    /\ maestro = << >>
    /\ idle = << >>

factFrame == <<storeVars, now, last_decay_time, decay, fg, phase, last_op, nops,
               lock, access, memVars, last_save_time, held, coreVars>>

\* _handle_add_user_fact calls add_user_fact(user_id, fact), which calls
\* get_user_profile
StartAddFact(t, user_id, fact) ==
    /\ threads[t].pc = "idle"
    /\ threads[t].calls < MaxFactCalls
    /\ threads' = [threads EXCEPT ![t] = [@ EXCEPT !.pc = "lookup",
                                            !.user_id = user_id, !.fact = fact,
                                            !.profile = 0, !.calls = @ + 1]]
    /\ UNCHANGED <<factFrame, user_profiles, files>>

\* get_user_profile: if user_id not in self.user_profiles
ProfileLookup(t) ==
    /\ threads[t].pc = "lookup"
    /\ threads' = [threads EXCEPT ![t].pc =
          IF InProfiles(threads[t].user_id) THEN "fetch" ELSE "create"]
    /\ UNCHANGED <<factFrame, user_profiles, files>>

\* get_user_profile: self.user_profiles[user_id] = {...}
ProfileCreate(t) ==
    /\ threads[t].pc = "create"
    /\ user_profiles' =
          [index |-> DictSet(user_profiles.index, threads[t].user_id,
                             Len(user_profiles.objects) + 1),
           objects |-> Append(user_profiles.objects, NewProfile(threads[t].user_id))]
    /\ threads' = [threads EXCEPT ![t].pc = "fetch"]
    /\ UNCHANGED <<factFrame, files>>

\* get_user_profile: return self.user_profiles[user_id]
ProfileFetch(t) ==
    /\ threads[t].pc = "fetch"
    /\ threads' = [threads EXCEPT ![t] = [@ EXCEPT !.pc = "check",
                      !.profile = user_profiles.index[threads[t].user_id]]]
    /\ UNCHANGED <<factFrame, user_profiles, files>>

\* add_user_fact: if fact not in profile["facts"]
FactCheck(t) ==
    /\ threads[t].pc = "check"
    /\ threads' = [threads EXCEPT ![t].pc =
          IF HasFact(user_profiles.objects[threads[t].profile], threads[t].fact)
          THEN "idle" ELSE "append"]
    /\ UNCHANGED <<factFrame, user_profiles, files>>

\* add_user_fact: profile["facts"].append(fact)
FactAppend(t) ==
    /\ threads[t].pc = "append"
    /\ user_profiles' = [user_profiles EXCEPT !.objects[threads[t].profile].facts =
                            Append(@, threads[t].fact)]
    /\ threads' = [threads EXCEPT ![t].pc = "save"]
    /\ UNCHANGED <<factFrame, files>>

\* add_user_fact: save_user_profile(user_id), which dumps
\* self.user_profiles[user_id] and logs a failure
FactSave(t, outcome) ==
    /\ threads[t].pc = "save"
    /\ files' = IF outcome = "ok" /\ InProfiles(threads[t].user_id)
                THEN DictSet(files, threads[t].user_id,
                        user_profiles.objects[
                            user_profiles.index[threads[t].user_id]].facts)
                ELSE files
    /\ threads' = [threads EXCEPT ![t].pc = "idle"]
    /\ UNCHANGED <<factFrame, user_profiles>>

NextFacts ==
    \/ \E t \in ThreadIds, user_id \in UserIds, fact \in Facts :
          StartAddFact(t, user_id, fact)
    \/ \E t \in ThreadIds : ProfileLookup(t)
    \/ \E t \in ThreadIds : ProfileCreate(t)
    \/ \E t \in ThreadIds : ProfileFetch(t)
    \/ \E t \in ThreadIds : FactCheck(t)
    \/ \E t \in ThreadIds : FactAppend(t)
    \/ \E t \in ThreadIds, outcome \in ProfileSaveOutcomes : FactSave(t, outcome)

SpecFacts == InitFacts /\ [][NextFacts]_vars

-----------------------------------------------------------------------------
(* One analysis pass alone: trigger_emotion and analyze_text on a state    *)
(* within the bounds, without the decay thread                             *)

\* values of sadness, anger, fear and surprise at the start: 0, the 0.005
\* that a decay too small to be applied leaves behind, and 3.0
PassStartValues == {0, 1, 600}

PassEmotions == {"anger", "joy", "love"}

\* 0.05, 3.0 and -3.0
PassIntensities == {10, 600, 0 - 600}

InitPass ==
    /\ \E b \in PassStartValues :
          emotional_state = [e \in Emotions |->
                                IF e \in {"joy", "interest"} THEN 1000 ELSE b]
    /\ personality_traits = initial_traits
    /\ emotion_log = << >>
    /\ personality_log = << >>
    /\ emotion_log_times = << >>
    /\ now = StartClock
    /\ last_decay_time = StartClock
    /\ decay = DecaySleep
    /\ fg = FgIdle
    /\ phase = "running"
    /\ last_op = NoOp
    /\ nops = 0
    /\ ConcIdle

NextPass ==
    \/ \E emotion \in PassEmotions, intensity \in PassIntensities :
          TriggerEmotion(emotion, intensity)
    \/ \E text \in Texts, author \in Authors : AnalyzeText(text, author)
    \/ FgAdjust
    \/ FgReadState
    \/ FgConstrain

SpecPass == InitPass /\ [][NextPass]_vars

-----------------------------------------------------------------------------
(* get_dominant_emotion on the affect vectors a load can leave.  Here       *)
(* emotional_state is the dict as its items in iteration order: a loaded   *)
(* emotional_state replaces the default dict (kairo_state.update), so the  *)
(* order of its keys is the order of the file.                             *)

\* 0, 3.0, 3.5 and 7.0
DominantValues == {0, 600, 700, 1400}

\* key orders of kairo_state.json: as the program writes it, and another
DominantOrders ==
    {EmotionOrder, <<"sadness", "joy", "anger", "fear", "surprise", "interest">>}

\* get_dominant_emotion: the items above 3.0, and max over them, which
\* returns the first item of greatest value in iteration order
get_dominant_emotion(items) ==
    LET significant == {i \in 1..Len(items) : items[i][2] > 600}
        best == CHOOSE i \in significant :
                    /\ \A j \in significant : items[j][2] <= items[i][2]
                    /\ \A j \in significant : items[j][2] = items[i][2] => i <= j
    IN  IF significant = {} THEN <<"neutral", 0>> ELSE items[best]

InitDominant ==
    /\ \E order \in DominantOrders,
          v \in [{"joy", "sadness", "anger"} -> DominantValues] :
          emotional_state = [i \in 1..Len(order) |->
                                <<order[i], IF order[i] \in DOMAIN v
                                            THEN v[order[i]] ELSE 0>>]
    /\ personality_traits = initial_traits
    /\ emotion_log = << >>
    /\ personality_log = << >>
    /\ emotion_log_times = << >>
    /\ now = StartClock
    /\ last_decay_time = StartClock
    /\ decay = DecaySleep
    /\ fg = FgIdle
    /\ phase = "running"
    /\ last_op = NoOp
    /\ nops = 0
    /\ ConcIdle

\* a call of EmotionEngine.get_dominant_emotion
GetDominantEmotion ==
    /\ last_op.op = "none"
    /\ last_op' = [NoOp EXCEPT !.n = 1, !.op = "get_dominant_emotion",
                               !.ret = get_dominant_emotion(emotional_state)]
    /\ UNCHANGED <<storeVars, now, last_decay_time, decay, fg, phase, nops, concVars>>

SpecDominant == InitDominant /\ [][GetDominantEmotion]_vars

-----------------------------------------------------------------------------
(* PersonalityCore (personality_core.py): analyze_interaction and the      *)
(* learning history.  In this section every number is in units of 0.00005, *)
(* Fine times finer than elsewhere, so that the products with the learning *)
(* rate are whole: 0.01 is 200, 1.0 is 20000.                              *)

Fine == 100

\* PERSONALITY_CONFIG["learning_rate"], in tenths
learning_rate == 1

PatternNames == {"question", "gratitude", "disagreement", "creativity_request",
                 "humor", "technical", "emotional_sharing", "impatience"}

\* interaction_patterns[pattern]["traits"]
interaction_patterns ==
    [p \in PatternNames |->
        CASE p = "question"           -> [t \in {"curiosity", "openness"} |->
                                            IF t = "curiosity" THEN 1000 ELSE 600]
          [] p = "gratitude"          -> [t \in {"empathy", "patience"} |->
                                            IF t = "empathy" THEN 1600 ELSE 1000]
          [] p = "disagreement"       -> [t \in {"assertiveness", "logic"} |->
                                            IF t = "assertiveness" THEN 1200 ELSE 800]
          [] p = "creativity_request" -> [t \in {"creativity", "openness"} |->
                                            IF t = "creativity" THEN 2000 ELSE 1000]
          [] p = "humor"              -> [t \in {"humor", "empathy"} |->
                                            IF t = "humor" THEN 1600 ELSE 600]
          [] p = "technical"          -> [t \in {"logic", "curiosity"} |->
                                            IF t = "logic" THEN 1400 ELSE 1000]
          [] p = "emotional_sharing"  -> [t \in {"empathy", "openness"} |->
                                            IF t = "empathy" THEN 2000 ELSE 1200]
          [] p = "impatience"         -> [t \in {"patience", "assertiveness"} |->
                                            IF t = "patience" THEN 0 - 1000 ELSE 600]]

\* emotion_to_trait_map of get_emotional_influence_on_personality
emotion_to_trait_map ==
    [e \in Emotions |->
        CASE e = "joy"      -> [t \in {"empathy", "openness", "patience"} |->
                                  IF t = "patience" THEN 1000 ELSE 2000]
          [] e = "sadness"  -> [t \in {"empathy", "patience", "assertiveness"} |->
                                  IF t = "empathy" THEN 1000
                                  ELSE IF t = "patience" THEN 0 - 1000 ELSE 0 - 2000]
          [] e = "anger"    -> [t \in {"assertiveness", "patience", "empathy"} |->
                                  IF t = "assertiveness" THEN 2000
                                  ELSE IF t = "patience" THEN 0 - 3000 ELSE 0 - 1000]
          [] e = "fear"     -> [t \in {"openness", "assertiveness", "patience"} |->
                                  IF t = "patience" THEN 1000 ELSE 0 - 2000]
          [] e = "surprise" -> [t \in {"curiosity", "openness"} |->
                                  IF t = "curiosity" THEN 2000 ELSE 1000]
          [] e = "interest" -> [t \in {"curiosity", "openness", "creativity"} |->
                                  IF t = "curiosity" THEN 3000
                                  ELSE IF t = "openness" THEN 2000 ELSE 1000]]

\* the sum of f over the keys in S
RECURSIVE SumOver(_, _)
SumOver(f, S) ==
    IF S = {} THEN 0
    ELSE LET x == CHOOSE x \in S : TRUE
         IN  f[x] + SumOver(f, S \ {x})

\* adjustments[trait] += ... for every item of more
AddInto(adjustments, more) ==
    [t \in DOMAIN adjustments \cup DOMAIN more |->
        DictGet(adjustments, t, 0) + DictGet(more, t, 0)]

\* get_emotional_influence_on_personality: for every emotion above 5.0,
\* base_influence * (value - 5.0) / 5.0, summed per trait
get_emotional_influence_on_personality(es) ==
    LET high == {e \in DOMAIN es \cap Emotions : es[e] > 5 * 200 * Fine}
    IN  [t \in UNION {DOMAIN emotion_to_trait_map[e] : e \in high} |->
            SumOver([e \in high |->
                        (DictGet(emotion_to_trait_map[e], t, 0)
                            * (es[e] - 5 * 200 * Fine)) \div (5 * 200 * Fine)],
                    high)]

\* _analyze_context; a later assignment to a trait replaces an earlier one
analyze_context(content, interaction_type, metadata) ==
    LET base_multiplier == IF interaction_type = "user_message" THEN 10
                           ELSE IF interaction_type = "system_event" THEN 3 ELSE 5
        a1 == IF content.len > 200
              THEN [t \in {"patience", "empathy"} |->
                       IF t = "patience" THEN 40 * base_multiplier
                       ELSE 60 * base_multiplier]
              ELSE IF content.len < 10
                   THEN [t \in {"patience"} |-> 0 - 20 * base_multiplier]
                   ELSE << >>
        a2 == IF content.exclamations > 2
              THEN DictSet(DictSet(a1, "humor", 60 * base_multiplier),
                           "openness", 40 * base_multiplier)
              ELSE a1
        a3 == IF content.questions > 1
              THEN DictSet(DictSet(a2, "curiosity", 80 * base_multiplier),
                           "openness", 40 * base_multiplier)
              ELSE a2
    IN  IF metadata = "high"
        THEN DictSet(DictSet(a3, "empathy", 100 * base_multiplier),
                     "patience", 60 * base_multiplier)
        ELSE IF metadata = "low"
             THEN DictSet(DictSet(a3, "assertiveness", 60 * base_multiplier),
                          "logic", 40 * base_multiplier)
             ELSE a3

\* analyze_interaction up to significant_adjustments: the pattern influences
\* times the learning rate, the emotional influences times the learning rate
\* times 0.5, the context adjustments as they are; then those of at least 0.01
significant_adjustments(content, interaction_type, metadata, es) ==
    LET patterns == [t \in UNION {DOMAIN interaction_patterns[p] : p \in content.patterns} |->
                        SumOver([p \in content.patterns |->
                                    (DictGet(interaction_patterns[p], t, 0)
                                        * learning_rate) \div 10],
                                content.patterns)]
        emotional == get_emotional_influence_on_personality(es)
        scaled == [t \in DOMAIN emotional |-> (emotional[t] * learning_rate) \div 20]
        adjustments == AddInto(AddInto(patterns, scaled),
                               analyze_context(content, interaction_type, metadata))
    IN  [t \in {u \in DOMAIN adjustments : Abs(adjustments[u]) >= 2 * Fine} |->
            adjustments[t]]

\* _apply_personality_adjustments: update_personality_trait for every item;
\* the traits are numbers here, and updates of different traits commute
RECURSIVE apply_personality_adjustments(_, _, _)
apply_personality_adjustments(pt, adjustments, i) ==
    IF i > Len(TraitOrder) THEN pt
    ELSE LET trait == TraitOrder[i]
         IN  apply_personality_adjustments(
                 IF trait \in DOMAIN adjustments
                 THEN UpdateTraitScaled(pt, << >>, trait, adjustments[trait],
                                        DictGet(pt, trait, 5 * 200 * Fine), Fine).pt
                 ELSE pt,
                 adjustments, i + 1)

\* len(self.learning_history) > 1000 and [-800:], scaled down
LearningCap == 3

LearningKeep == 2

\* the history with the oldest events kept instead of the newest
record_learning_event_KeepsOldest(history, event) ==
    LET appended == Append(history, event)
    IN  IF Len(appended) > LearningCap
        THEN SubSeq(appended, 1, LearningKeep)
        ELSE appended

\* _record_learning_event: the history after the event was appended
record_learning_event(history, event) ==
    LET appended == Append(history, event)
    IN  IF Len(appended) > LearningCap
        THEN LastN(appended, LearningKeep)
        ELSE appended

MaxLearnCalls == 4

\* "Como funciona esse algoritmo? Por que você escolheu essa abordagem?",
\* "ok", "crie algo original!!!", and ""
LearnContents ==
    { [patterns |-> {"question", "technical"}, len |-> 67, exclamations |-> 0,
       questions |-> 2],
      [patterns |-> {}, len |-> 2, exclamations |-> 0, questions |-> 0],
      [patterns |-> {"creativity_request"}, len |-> 21, exclamations |-> 3,
       questions |-> 0],
      [patterns |-> {}, len |-> 0, exclamations |-> 0, questions |-> 0] }

InteractionTypes == {"user_message", "system_event"}

Metadatas == {"none", "low"}

\* the number of the last event recorded, 0 when there is none
LastEventNumber(history) == IF history = << >> THEN 0 ELSE history[Len(history)].n

\* learning_history.json as an earlier run left it, longer than the cap
LoadedHistory == [i \in 1..(LearningCap + 2) |-> [n |-> i, adjustments |-> << >>]]

InitLearn ==
    /\ \E joy \in {5 * 200 * Fine, 7 * 200 * Fine} :
          emotional_state = [e \in Emotions |->
                                IF e = "joy" THEN joy ELSE Fine * default_values[e]]
    /\ \E curiosity \in {5 * 200 * Fine, 10 * 200 * Fine} :
          personality_traits = [t \in Traits |->
                                   IF t = "curiosity" THEN curiosity
                                   ELSE Fine * initial_traits[t]]
    /\ emotion_log = << >>
    /\ personality_log = << >>
    /\ emotion_log_times = << >>
    /\ now = StartClock
    /\ last_decay_time = StartClock
    /\ decay = DecaySleep
    /\ fg = FgIdle
    /\ phase = "running"
    /\ last_op = NoOp
    /\ nops = 0
    /\ lock = [owner |-> "none", count |-> 0]
    /\ threads = << >>
    /\ files = << >>
    /\ access = << >>
    /\ memories = << >>
    /\ important_memories = << >>
    /\ interaction_count = 0
    /\ now_ms = 0
    /\ user_profiles = << >>
    /\ last_save_time = StartClock
    /\ held = NotHeld
    /\ learning_history \in {<< >>, LoadedHistory}
    /\ maestro = << >>
    /\ idle = << >>

\* PersonalityCore.analyze_interaction(content, interaction_type, metadata)
AnalyzeInteraction(content, interaction_type, metadata) ==
    /\ nops < MaxLearnCalls
    /\ nops' = nops + 1
    /\ LET significant == IF content.len = 0 THEN << >>
                          ELSE significant_adjustments(content, interaction_type,
                                                       metadata, emotional_state)
           recorded == DOMAIN significant # {}
           event == [n |-> LastEventNumber(learning_history) + 1,
                     adjustments |-> significant]
       IN  /\ personality_traits' =
                 apply_personality_adjustments(personality_traits, significant, 1)
           /\ learning_history' = IF recorded
                                  THEN record_learning_event(learning_history, event)
                                  ELSE learning_history
           /\ last_op' = [NoOp EXCEPT !.n = last_op.n + 1,
                                      !.op = "analyze_interaction",
                                      !.name = interaction_type,
                                      !.before = LastEventNumber(learning_history),
                                      !.had = recorded,
                                      !.ret = <<significant>>]
    /\ UNCHANGED <<emotional_state, emotion_log, personality_log, emotion_log_times,
                   now, last_decay_time, decay, fg, phase, lock, threads, files,
                   access, memVars, user_profiles, last_save_time, held, idle, maestro>>

NextLearn ==
    \E content \in LearnContents, interaction_type \in InteractionTypes,
       metadata \in Metadatas :
        AnalyzeInteraction(content, interaction_type, metadata)

SpecLearn == InitLearn /\ [][NextLearn]_vars

-----------------------------------------------------------------------------
(* IdleProcessor._select_idle_activity (idle_processor.py): the weighted    *)
(* draw alone.  idle holds the boosted weights as the items of the dict in *)
(* iteration order and the value random.uniform returned, in units of      *)
(* 1 / DrawRes of a weight.                                                *)

DrawRes == 2

\* the cumulative weight of the items up to i
RECURSIVE CumulativeWeight(_, _)
CumulativeWeight(items, i) ==
    IF i = 0 THEN 0 ELSE items[i][2] * DrawRes + CumulativeWeight(items, i - 1)

\* the kind whose place is proportional to the draw, whatever the weights
select_idle_activity_Unweighted(items, rand_value) ==
    LET total_weight == CumulativeWeight(items, Len(items))
    IN  IF Len(items) = 0 \/ total_weight <= 0 THEN "none"
        ELSE items[Min(Len(items), (rand_value * Len(items)) \div total_weight + 1)][1]

\* _select_idle_activity from weighted_activities on: none without
\* candidates or weight, else the first kind with rand_value <= current_weight
select_idle_activity(items, rand_value) ==
    LET total_weight == CumulativeWeight(items, Len(items))
        hits == {i \in 1..Len(items) : rand_value <= CumulativeWeight(items, i)}
    IN  IF Len(items) = 0 \/ total_weight <= 0 THEN "none"
        ELSE IF hits = {} THEN items[1][1]
        ELSE items[CHOOSE i \in hits : \A j \in hits : i <= j][1]

ActivityOrder == <<"reflection", "curiosity", "emotional_processing",
                   "learning_consolidation", "proactive_engagement">>

\* idle_activities[kind]["weight"]
activity_weight ==
    [k \in {ActivityOrder[i] : i \in 1..Len(ActivityOrder)} |->
        CASE k = "reflection"             -> 30
          [] k = "curiosity"              -> 25
          [] k = "emotional_processing"   -> 20
          [] k = "learning_consolidation" -> 15
          [] k = "proactive_engagement"   -> 10]

\* the fixed weights {A: 30, B: 10}
FixedWeights == << <<"A", 30>>, <<"B", 10>> >>

\* weighted_activities: the fixed weights, the five kinds without boosters,
\* a kind of weight 0, no weight at all, no candidates
WeightAssignments ==
    { FixedWeights,
      [i \in 1..Len(ActivityOrder) |-> <<ActivityOrder[i], activity_weight[ActivityOrder[i]]>>],
      << <<"A", 0>>, <<"B", 10>> >>,
      << <<"A", 10>>, <<"B", 0>>, <<"C", 10>> >>,
      << <<"A", 0>>, <<"B", 0>> >>,
      << >> }

InitSelect ==
    /\ emotional_state = default_values
    /\ personality_traits = initial_traits
    /\ emotion_log = << >>
    /\ personality_log = << >>
    /\ emotion_log_times = << >>
    /\ now = StartClock
    /\ last_decay_time = StartClock
    /\ decay = DecaySleep
    /\ fg = FgIdle
    /\ phase = "running"
    /\ last_op = NoOp
    /\ nops = 0
    /\ lock = [owner |-> "none", count |-> 0]
    /\ threads = << >>
    /\ files = << >>
    /\ access = << >>
    /\ memories = << >>
    /\ important_memories = << >>
    /\ interaction_count = 0
    /\ now_ms = 0
    /\ user_profiles = << >>
    /\ last_save_time = StartClock
    /\ held = NotHeld
    /\ learning_history = << >>
    /\ maestro = << >>
    /\ \E items \in WeightAssignments :
          \E rand_value \in 0..CumulativeWeight(items, Len(items)) :
             idle = [weighted_activities |-> items, rand_value |-> rand_value,
                     selected |-> "pending"]

\* a call of _select_idle_activity with these weights and this draw
SelectIdleActivity ==
    /\ idle.selected = "pending"
    /\ idle' = [idle EXCEPT !.selected =
                   select_idle_activity(idle.weighted_activities, idle.rand_value)]
    /\ UNCHANGED <<storeVars, now, last_decay_time, decay, fg, phase, last_op, nops,
                   lock, threads, files, access, memVars, user_profiles,
                   last_save_time, held, learning_history, maestro>>

SpecSelect == InitSelect /\ [][SelectIdleActivity]_vars

-----------------------------------------------------------------------------
(* IdleProcessor (idle_processor.py): the idle thread of _idle_loop and    *)
(* update_interaction_time, called by the foreground on every user         *)
(* message.  idle holds the processor's fields, the position of the idle   *)
(* thread (sleep: in time.sleep or between ticks, llm: inside send_prompt)  *)
(* and two counters kept for the properties: invocations, the calls of     *)
(* _execute_idle_activity, and plans, the calls of execute_plan, both      *)
(* since the last update_interaction_time.  The clock moves by whole       *)
(* check intervals; a tick itself takes no time.                           *)

idle_threshold == 300
check_interval == 60
max_idle_actions == 3

MaxIdleClock == StartClock + 600
MaxInteractions == 1

\* the client handed to the constructor: MaestroSystem.initialize passes an
\* OpenAIClient, which has no send_prompt; OllamaClient has one
LLMClients == {"openai", "ollama"}

\* what send_prompt and execute_plan can give: no response, a plan of which
\* an action failed, a plan that succeeded
DelegateOutcomes == {"no_response", "plan_failed", "ok"}

InitIdle ==
    /\ emotional_state = default_values
    /\ personality_traits = initial_traits
    /\ emotion_log = << >>
    /\ personality_log = << >>
    /\ emotion_log_times = << >>
    /\ now = StartClock
    /\ last_decay_time = StartClock
    /\ decay = DecaySleep
    /\ fg = FgIdle
    /\ phase = "running"
    /\ last_op = NoOp
    /\ nops = 0
    /\ lock = [owner |-> "none", count |-> 0]
    /\ threads = << >>
    /\ files = << >>
    /\ access = << >>
    /\ memories = << >>
    /\ important_memories = << >>
    /\ interaction_count = 0
    /\ now_ms = 0
    /\ user_profiles = << >>
    /\ last_save_time = StartClock
    /\ held = NotHeld
    /\ learning_history = << >>
    /\ maestro = << >>
    /\ \E client \in LLMClients :
          idle = [ollama_client |-> client,
                  last_interaction_time |-> StartClock,
                  current_idle_actions |-> 0,
                  total_idle_periods |-> 0,
                  total_idle_actions |-> 0,
                  average_idle_duration |-> 0,
                  activities_by_type |-> << >>,
                  pc |-> "sleep", due |-> FALSE,
                  activity_type |-> "none", idle_duration |-> 0,
                  invocations |-> 0, plans |-> 0, interactions |-> 0]

idleFrame ==
    <<storeVars, last_decay_time, decay, fg, phase, last_op, nops, lock, threads,
      files, access, memVars, user_profiles, last_save_time, held, learning_history,
      maestro>>

\* _update_average_idle_duration, in whole seconds
update_average_idle_duration(st, duration) ==
    IF st.total_idle_periods = 1
    THEN [st EXCEPT !.average_idle_duration = duration]
    ELSE [st EXCEPT !.average_idle_duration =
             (st.average_idle_duration * (st.total_idle_periods - 1) + duration)
                 \div st.total_idle_periods]

\* the rest of _process_idle_period once _execute_idle_activity returned
AfterExecute(st, activity_type, idle_duration, success) ==
    LET counted ==
            IF success
            THEN [st EXCEPT !.current_idle_actions = @ + 1,
                            !.total_idle_actions = @ + 1,
                            !.activities_by_type =
                                DictSet(@, activity_type, DictGet(@, activity_type, 0) + 1)]
            ELSE st
    IN  IF counted.current_idle_actions = 1
        THEN update_average_idle_duration(
                 [counted EXCEPT !.total_idle_periods = @ + 1], idle_duration)
        ELSE counted

\* time.sleep(check_interval) of _idle_loop runs out
IdleSleep ==
    /\ idle.pc = "sleep"
    /\ ~idle.due
    /\ now + check_interval <= MaxIdleClock
    /\ now' = now + check_interval
    /\ idle' = [idle EXCEPT !.due = TRUE]
    /\ UNCHANGED idleFrame

\* one pass of _idle_loop after the sleep, up to the call of send_prompt:
\* below the threshold or at the cap nothing happens; else an activity is
\* selected (every kind has a positive weight, so any can be) and
\* _execute_idle_activity generates its prompt and calls send_prompt, which
\* an OpenAIClient does not have: the AttributeError is caught, success is
\* False
IdleTick ==
    /\ idle.pc = "sleep"
    /\ idle.due
    /\ LET idle_duration == now - idle.last_interaction_time
           woke == [idle EXCEPT !.due = FALSE]
       IN  IF idle_duration < idle_threshold
                \/ idle.current_idle_actions >= max_idle_actions
           THEN idle' = woke
           ELSE \E i \in 1..Len(ActivityOrder) :
                   LET called == [woke EXCEPT !.invocations = @ + 1,
                                              !.activity_type = ActivityOrder[i],
                                              !.idle_duration = idle_duration]
                   IN  IF idle.ollama_client = "openai"
                       THEN idle' = AfterExecute(called, ActivityOrder[i],
                                                 idle_duration, FALSE)
                       ELSE idle' = [called EXCEPT !.pc = "llm"]
    /\ UNCHANGED <<now, idleFrame>>

\* send_prompt returns: without a response success is False; with one,
\* execute_plan runs the plan's actions and gives success; then the rest of
\* _process_idle_period
IdleResponse(outcome) ==
    /\ idle.pc = "llm"
    /\ LET executed == IF outcome = "no_response" THEN idle
                       ELSE [idle EXCEPT !.plans = @ + 1]
       IN  idle' = AfterExecute([executed EXCEPT !.pc = "sleep"],
                                idle.activity_type, idle.idle_duration,
                                outcome = "ok")
    /\ UNCHANGED <<now, idleFrame>>

\* update_interaction_time, called without a lock by _process_user_message
update_interaction_time ==
    /\ idle.interactions < MaxInteractions
    /\ idle' = [idle EXCEPT !.last_interaction_time = now,
                            !.current_idle_actions = 0,
                            !.invocations = 0, !.plans = 0,
                            !.interactions = @ + 1]
    /\ UNCHANGED <<now, idleFrame>>

NextIdle ==
    \/ IdleSleep
    \/ IdleTick
    \/ \E outcome \in DelegateOutcomes : IdleResponse(outcome)
    \/ update_interaction_time

SpecIdle == InitIdle /\ [][NextIdle]_vars

-----------------------------------------------------------------------------
(* StateManager.important_memories (state_manager.py): the cache that      *)
(* get_state_summary reports, under add_interaction, add_memory and the    *)
(* remember_important command of the ActionExecutor, starting from an      *)
(* empty store or from one loaded from a snapshot.                         *)

\* a memory an earlier run saved for a question of the user: importance 0.8
SavedImportantMemory == [SavedMemory EXCEPT !.importance = 160]

\* kairo_state["memories"] after _load_kairo_state
LoadedMemories == {<< >>, <<SavedImportantMemory>>}

InitCache ==
    /\ emotional_state = default_values
    /\ personality_traits = initial_traits
    /\ emotion_log = << >>
    /\ personality_log = << >>
    /\ emotion_log_times = << >>
    /\ now = StartClock
    /\ last_decay_time = StartClock
    /\ decay = DecaySleep
    /\ fg = FgIdle
    /\ phase = "running"
    /\ last_op = NoOp
    /\ nops = 0
    /\ lock = [owner |-> "none", count |-> 0]
    /\ threads = << >>
    /\ files = << >>
    /\ access = << >>
    /\ \E loaded \in LoadedMemories :
          /\ memories = loaded
          /\ interaction_count = Len(loaded)
    /\ important_memories = << >>
    /\ now_ms = 0
    /\ user_profiles = << >>
    /\ last_save_time = StartClock
    /\ held = NotHeld
    /\ learning_history = << >>
    /\ idle = << >>
    /\ maestro = << >>

\* interaction["importance"] = 1.0 on the dict add_interaction returned,
\* which is the object the lists hold
ForceImportance(list, interaction) ==
    [i \in 1..Len(list) |->
        IF list[i] = interaction THEN [list[i] EXCEPT !.importance = 200]
        ELSE list[i]]

\* ActionExecutor._handle_remember_important(info) for a non-empty info:
\* add_interaction("kairo", "[IMPORTANTE] " + info), then the importance of
\* the returned record is forced to 1.0; an exception of add_interaction is
\* caught and nothing is forced
RememberImportant(content) ==
    /\ nops < MaxMemCalls
    /\ LET r == add_interaction(memories, interaction_count, now_ms, nops + 1,
                                "kairo", content)
           cached == cache_important(important_memories, r.record)
       IN  /\ memories' = IF r.raised THEN r.memories
                          ELSE ForceImportance(r.memories, r.record)
           /\ interaction_count' = r.interaction_count
           /\ important_memories' = IF r.raised THEN cached
                                    ELSE ForceImportance(cached, r.record)
           /\ last_op' = [NoOp EXCEPT !.n = last_op.n + 1, !.op = "remember_important",
                                      !.name = "kairo", !.before = Len(memories),
                                      !.ret = r.ret, !.raised = r.raised]
    /\ nops' = nops + 1
    /\ UNCHANGED <<memFrame, now_ms>>

NextCache ==
    \/ NextMem
    \/ \E content \in MemContents : RememberImportant(content)

SpecCache == InitCache /\ [][NextCache]_vars

-----------------------------------------------------------------------------
(* StateManager.update_emotional_state and its log (state_manager.py):     *)
(* calls of the store alone, a few seconds apart.                          *)

\* deltas of the calls: -0.3, 0.3, 0.5, 3.0
LogDeltas == {0 - 60, 60, 100, 600}

LogEmotions == {"joy", "anger"}

LogClockSteps == {1, 3}

MaxLogCalls == 3

LogMaxClock == 1006

InitLog ==
    /\ emotional_state = default_values
    /\ personality_traits = initial_traits
    /\ emotion_log = << >>
    /\ personality_log = << >>
    /\ emotion_log_times = << >>
    /\ now = StartClock
    /\ last_decay_time = StartClock
    /\ decay = DecaySleep
    /\ fg = FgIdle
    /\ phase = "running"
    /\ last_op = NoOp
    /\ nops = 0
    /\ ConcIdle

\* a call of StateManager.update_emotional_state
UpdateEmotion(emotion, delta) ==
    /\ nops < MaxLogCalls
    /\ CallUpdateEmotion(emotion, delta, "foreground")
    /\ nops' = nops + 1
    /\ UNCHANGED <<now, last_decay_time, decay, fg, phase, concVars>>

LogClock(dt) ==
    /\ now + dt <= LogMaxClock
    /\ now' = now + dt
    /\ UNCHANGED <<storeVars, last_decay_time, decay, fg, phase, last_op, nops,
                   concVars>>

NextLog ==
    \/ \E emotion \in LogEmotions, delta \in LogDeltas : UpdateEmotion(emotion, delta)
    \/ \E dt \in LogClockSteps : LogClock(dt)

SpecLog == InitLog /\ [][NextLog]_vars

-----------------------------------------------------------------------------
(* A decay tick (EmotionEngine._apply_emotional_decay) and one foreground  *)
(* call of update_emotional_state on the emotion the tick is about.  The   *)
(* tick reads the state once (DecayWake) and calls the store for each      *)
(* emotion (DecayStep); the foreground call can fall between the two.      *)

\* the emotion that is off its baseline, and its value: joy 5.05 or 5.25,
\* anger 0.1 or 9.9
RaceStarts == { <<"joy", 1010>>, <<"joy", 1050>>, <<"anger", 20>>, <<"anger", 1980>> }

\* deltas of the foreground call: -10.0, -0.15, -0.04, 0.15, 3.0, 10.0
RaceDeltas == {0 - 2000, 0 - 30, 0 - 8, 30, 600, 2000}

MaxRaceCalls == 1

InitRace ==
    /\ \E start \in RaceStarts :
          emotional_state = [default_values EXCEPT ![start[1]] = start[2]]
    /\ personality_traits = initial_traits
    /\ emotion_log = << >>
    /\ personality_log = << >>
    /\ emotion_log_times = << >>
    /\ now = StartClock
    /\ last_decay_time = StartClock
    /\ decay = DecaySleep
    /\ fg = FgIdle
    /\ phase = "running"
    /\ last_op = NoOp
    /\ nops = 0
    /\ ConcIdle

\* the foreground call of StateManager.update_emotional_state
RaceUpdate(emotion, delta) ==
    /\ nops < MaxRaceCalls
    /\ CallUpdateEmotion(emotion, delta, "foreground")
    /\ nops' = nops + 1
    /\ UNCHANGED <<now, last_decay_time, decay, fg, phase, concVars>>

NextRace ==
    \/ \E dt \in ClockSteps : AdvanceClock(dt)
    \/ DecayWake
    \/ DecayStep
    \/ \E start \in RaceStarts, delta \in RaceDeltas : RaceUpdate(start[1], delta)

SpecRace == InitRace /\ [][NextRace]_vars

-----------------------------------------------------------------------------
(* MaestroSystem (main.py): initialize, run, the ways the main loop ends,  *)
(* shutdown module by module, and the three background loops the modules   *)
(* start (auto-save, decay, idle).  maestro holds the flags and where the  *)
(* system and each loop are; step names the last thing that happened.      *)
(* A loop sleeps (time.sleep), does its work and tests its flag; when its  *)
(* sleep ends is not tied to the bounded clock.                            *)

Tasks == {"save", "decay", "idle"}

\* modules_to_shutdown, in its order
ShutdownOrder == <<"IdleProcessor", "ActionExecutor", "Executor", "OpenAIClient",
                   "PromptEngine", "PersonalityCore", "EmotionEngine", "StateManager">>

\* the modules that define shutdown(): PromptEngine has none
HasShutdown == {ShutdownOrder[i] : i \in 1..Len(ShutdownOrder)} \ {"PromptEngine"}

\* the module whose initialize raises, in the order of MaestroSystem.initialize
InitOrder == <<"StateManager", "EmotionEngine", "PersonalityCore", "PromptEngine",
               "OpenAIClient", "Executor", "ActionExecutor", "IdleProcessor">>

\* 0: every module initializes
InitFailures == 0..Len(InitOrder)

\* how the main loop ends: a quit command, end of input or Ctrl-C read by
\* the input thread, or SIGINT/SIGTERM taken by the signal handler
LoopEnds == {"quit", "eof", "interrupt", "signal"}

LifeClockSteps == {301}

MaxLifeClock == 1301

\* joy as loaded from the last snapshot: 5.0 or 6.0
LifeJoyValues == {1000, 1200}

\* the while test of a background loop
LoopGoesOn_Forever(flag) == TRUE

\* while self.running / while self.auto_save_enabled
LoopGoesOn(flag) == flag

\* the task a module's initialize starts
TaskOf(module) ==
    CASE module = "StateManager"  -> "save"
      [] module = "EmotionEngine" -> "decay"
      [] module = "IdleProcessor" -> "idle"
      [] OTHER -> "none"

\* the flag a module's shutdown clears
FlagsAfterShutdown(flags, module) ==
    IF TaskOf(module) \in Tasks THEN [flags EXCEPT ![TaskOf(module)] = FALSE] ELSE flags

NewMaestro ==
    [pc |-> "new", running |-> FALSE, initialization_complete |-> FALSE,
     flags |-> [save |-> TRUE, decay |-> FALSE, idle |-> FALSE],
     tasks |-> [t \in Tasks |-> "none"],
     i |-> 0, invoked |-> {}, final_save |-> FALSE, sent |-> FALSE,
     step |-> "none"]

\* IdleProcessor.__init__ with this client, at this time
NewIdleProcessor(client, clock) ==
    [ollama_client |-> client, last_interaction_time |-> clock,
     current_idle_actions |-> 0, total_idle_periods |-> 0,
     total_idle_actions |-> 0, average_idle_duration |-> 0,
     activities_by_type |-> << >>, pc |-> "sleep", due |-> FALSE,
     activity_type |-> "none", idle_duration |-> 0,
     invocations |-> 0, plans |-> 0, interactions |-> 0]

InitLife ==
    /\ \E joy \in LifeJoyValues :
          emotional_state = [default_values EXCEPT !["joy"] = joy]
    /\ personality_traits = initial_traits
    /\ emotion_log = << >>
    /\ personality_log = << >>
    /\ emotion_log_times = << >>
    /\ now = StartClock
    /\ last_decay_time = StartClock
    /\ decay = DecaySleep
    /\ fg = FgIdle
    /\ phase = "running"
    /\ last_op = NoOp
    /\ nops = 0
    /\ lock = [owner |-> "none", count |-> 0]
    /\ threads = << >>
    /\ files = NoFiles
    /\ access = << >>
    /\ memories = << >>
    /\ important_memories = << >>
    /\ interaction_count = 0
    /\ now_ms = 0
    /\ user_profiles = << >>
    /\ last_save_time = StartClock
    /\ held = NotHeld
    /\ learning_history = << >>
    /\ \E client \in LLMClients : idle = NewIdleProcessor(client, StartClock)
    /\ maestro = NewMaestro

lifeFrame == <<personality_traits, personality_log, decay, fg, phase, last_op, nops,
               lock, threads, access, memVars, user_profiles, held, learning_history>>

\* MaestroSystem.initialize: the modules are initialized in order; the
\* first whose initialize raises makes it return False, with the modules
\* before it left as they are
MaestroInitialize(failing) ==
    /\ maestro.pc = "new"
    /\ LET done == {InitOrder[k] : k \in 1..(IF failing = 0 THEN Len(InitOrder)
                                              ELSE failing - 1)}
           started == {TaskOf(module) : module \in done} \ {"none"}
       IN  maestro' = [maestro EXCEPT
              !.pc = IF failing = 0 THEN "ready" ELSE "failed",
              !.initialization_complete = (failing = 0),
              !.flags = [t \in Tasks |-> IF t = "save" THEN TRUE ELSE t \in started],
              !.tasks = [t \in Tasks |-> IF t \in started THEN "sleep" ELSE "none"],
              !.step = "initialize"]
    /\ UNCHANGED <<storeVars, now, last_decay_time, files, last_save_time, idle, lifeFrame>>

\* MaestroSystem.run up to the main loop
MaestroRun ==
    /\ maestro.pc = "ready"
    /\ maestro' = [maestro EXCEPT !.pc = "main_loop", !.running = TRUE, !.step = "run"]
    /\ UNCHANGED <<storeVars, now, last_decay_time, files, last_save_time, idle, lifeFrame>>

\* the main loop ends and shutdown is called: the input thread set running
\* to False (quit, eof, interrupt) and run's finally calls shutdown, or the
\* signal handler calls it with running still True
MainLoopEnds(way) ==
    /\ maestro.pc = "main_loop"
    /\ maestro' = [maestro EXCEPT !.pc = "shutdown", !.i = 0,
                                  !.running = (way = "signal"), !.step = way]
    /\ UNCHANGED <<storeVars, now, last_decay_time, files, last_save_time, idle, lifeFrame>>

\* shutdown called after initialize without run
ShutdownWithoutRun ==
    /\ maestro.pc = "ready"
    /\ maestro' = [maestro EXCEPT !.pc = "shutdown", !.i = 0, !.step = "no_run"]
    /\ UNCHANGED <<storeVars, now, last_decay_time, files, last_save_time, idle, lifeFrame>>

\* MaestroSystem.shutdown, one step: the test of running at its start, then
\* one module's shutdown per step (the join of a loop's thread gives up
\* after 2 seconds).  StateManager.shutdown ends with save_state.
ShutdownStep(outcome) ==
    /\ maestro.pc = "shutdown"
    /\ IF maestro.i = 0
       THEN /\ maestro' = IF ~maestro.running
                          THEN [maestro EXCEPT !.pc = "down", !.step = "shutdown_return"]
                          ELSE [maestro EXCEPT !.running = FALSE, !.i = 1,
                                               !.step = "shutdown_start"]
            /\ UNCHANGED <<files, last_save_time>>
       ELSE LET module == ShutdownOrder[maestro.i]
                called == module \in HasShutdown
                last == maestro.i = Len(ShutdownOrder)
                r == save_state(files, StateContent, now, last_save_time, outcome)
            IN  /\ maestro' = [maestro EXCEPT
                      !.flags = IF called THEN FlagsAfterShutdown(@, module) ELSE @,
                      !.invoked = IF called THEN @ \cup {module} ELSE @,
                      !.final_save = @ \/ (called /\ module = "StateManager"),
                      !.i = IF last THEN 0 ELSE @ + 1,
                      !.pc = IF last THEN "down" ELSE @,
                      !.step = "shutdown_module"]
                /\ IF called /\ module = "StateManager"
                   THEN /\ SaveOutcomePossible(files, now, outcome)
                        /\ files' = r.files
                        /\ last_save_time' = r.last_save_time
                   ELSE /\ outcome = "ok"
                        /\ UNCHANGED <<files, last_save_time>>
    /\ (maestro.i = 0 => outcome = "ok")
    /\ UNCHANGED <<storeVars, now, last_decay_time, idle, lifeFrame>>

\* _apply_emotional_decay over the emotions from i on, each through
\* update_emotional_state
RECURSIVE apply_emotional_decay(_, _, _, _)
apply_emotional_decay(store, snapshot, secs, i) ==
    IF i > Len(EmotionOrder) THEN store
    ELSE LET emotion == EmotionOrder[i]
             delta == DecayDelta(emotion, snapshot[emotion], secs)
             r == update_emotional_state(store.es, store.log, store.times, now,
                                         emotion, delta)
         IN  apply_emotional_decay(
                 IF delta = 0 THEN store
                 ELSE [es |-> r.es, log |-> r.log, times |-> r.times],
                 snapshot, secs, i + 1)

\* where a loop is after one pass
AfterPass(task) ==
    IF LoopGoesOn(maestro.flags[task]) THEN "sleep" ELSE "done"

\* one pass of _decay_loop after its sleep, then the while test
DecayCycle ==
    /\ maestro.tasks["decay"] = "sleep"
    /\ LET secs == now - last_decay_time
           r == apply_emotional_decay(
                    [es |-> emotional_state, log |-> emotion_log,
                     times |-> emotion_log_times],
                    get_emotional_state(emotional_state), secs, 1)
       IN  IF secs >= 60
           THEN /\ emotional_state' = r.es
                /\ emotion_log' = r.log
                /\ emotion_log_times' = r.times
                /\ last_decay_time' = now
           ELSE UNCHANGED <<emotional_state, emotion_log, emotion_log_times,
                            last_decay_time>>
    /\ maestro' = [maestro EXCEPT !.tasks["decay"] = AfterPass("decay"),
                                  !.step = "decay"]
    /\ UNCHANGED <<now, files, last_save_time, idle, lifeFrame>>

\* one pass of auto_save_loop after its sleep, then the while test
SaveCycle(outcome) ==
    /\ maestro.tasks["save"] = "sleep"
    /\ LET r == save_state(files, StateContent, now, last_save_time, outcome)
       IN  IF AutoSaveDue
           THEN /\ SaveOutcomePossible(files, now, outcome)
                /\ files' = r.files
                /\ last_save_time' = r.last_save_time
           ELSE /\ outcome = "ok"
                /\ UNCHANGED <<files, last_save_time>>
    /\ maestro' = [maestro EXCEPT !.tasks["save"] = AfterPass("save"),
                                  !.step = "save"]
    /\ UNCHANGED <<storeVars, now, last_decay_time, idle, lifeFrame>>

\* one pass of _idle_loop after its sleep, then the while test: past the
\* threshold and under the cap an activity is generated and given to
\* send_prompt, which the OpenAI client does not have (AttributeError,
\* caught); a plan that was executed counts.  The statistics of the idle
\* processor are left as they are here.  sent tells that a prompt reached
\* the language model after IdleProcessor.running was cleared
IdleCycle(outcome) ==
    /\ maestro.tasks["idle"] = "sleep"
    /\ LET idle_duration == now - idle.last_interaction_time
           fires == /\ idle_duration >= idle_threshold
                    /\ idle.current_idle_actions < max_idle_actions
           reaches == fires /\ idle.ollama_client # "openai"
       IN  /\ (~reaches => outcome = "no_response")
           /\ idle' = IF reaches /\ outcome = "ok"
                      THEN [idle EXCEPT !.current_idle_actions = @ + 1]
                      ELSE idle
           /\ maestro' = [maestro EXCEPT
                 !.tasks["idle"] = AfterPass("idle"),
                 !.sent = @ \/ (reaches /\ ~maestro.flags["idle"]),
                 !.step = "idle"]
    /\ UNCHANGED <<storeVars, now, last_decay_time, files, last_save_time, lifeFrame>>

\* the process ends (main returns, sys.exit): its daemon threads end with it
ProcessExit ==
    /\ maestro.pc \in {"down", "failed"}
    /\ maestro' = [maestro EXCEPT
          !.pc = "exited",
          !.tasks = [t \in Tasks |-> IF @[t] = "sleep" THEN "killed" ELSE @[t]],
          !.step = "exit"]
    /\ UNCHANGED <<storeVars, now, last_decay_time, files, last_save_time, idle, lifeFrame>>

LifeClock(dt) ==
    /\ maestro.pc # "exited"
    /\ now + dt <= MaxLifeClock
    /\ now' = now + dt
    /\ maestro' = [maestro EXCEPT !.step = "clock"]
    /\ UNCHANGED <<storeVars, last_decay_time, files, last_save_time, idle, lifeFrame>>

TaskCycle(task) ==
    CASE task = "decay" -> DecayCycle
      [] task = "save"  -> \E outcome \in {"ok", "open_fails"} : SaveCycle(outcome)
      [] task = "idle"  -> \E outcome \in DelegateOutcomes : IdleCycle(outcome)

NextLife ==
    \/ \E failing \in InitFailures : MaestroInitialize(failing)
    \/ MaestroRun
    \/ \E way \in LoopEnds : MainLoopEnds(way)
    \/ ShutdownWithoutRun
    \/ \E outcome \in {"ok", "open_fails"} : ShutdownStep(outcome)
    \/ \E task \in Tasks : TaskCycle(task)
    \/ ProcessExit
    \/ \E dt \in LifeClockSteps : LifeClock(dt)

SpecLife == InitLife /\ [][NextLife]_vars

\* every loop that sleeps gets to run, and a shutdown under way goes on
SpecLifeFair ==
    /\ SpecLife
    /\ \A task \in Tasks : WF_vars(TaskCycle(task))
    /\ WF_vars(\E outcome \in {"ok", "open_fails"} : ShutdownStep(outcome))

-----------------------------------------------------------------------------
(* Properties of the store *)

Clamp(lo, hi, v) == Max(lo, Min(hi, v))

InBounds(d, lo, hi) ==
    \A k \in DOMAIN d : IsNumber(d[k]) /\ lo <= d[k] /\ d[k] <= hi

EmotionCall == last_op.op = "update_emotional_state" /\ ~last_op.raised

TraitCall == last_op.op = "update_personality_trait" /\ ~last_op.raised

\* C1: in every reachable state every stored emotion value and every stored
\* trait value is a number in [0, 10].
C1_ValuesInBounds ==
    /\ InBounds(emotional_state, EmotionBoundLo, EmotionBoundHi)
    /\ InBounds(personality_traits, TraitBoundLo, TraitBoundHi)

\* C2: after update_emotional_state(e, d) the stored value of e is
\* min(10, max(0, v + d)), v being the value before the call, for every delta.
C2_EmotionIsClampedSum ==
    EmotionCall =>
        DictGet(emotional_state, last_op.name, 0)
            = Clamp(EmotionBoundLo, EmotionBoundHi, last_op.before + last_op.delta)

\* C3: update_emotional_state returns the value stored after the call.
C3_ReturnsStoredValue ==
    EmotionCall =>
        last_op.ret = <<DictGet(emotional_state, last_op.name, 0)>>

\* C4: update_emotional_state(e, 0, reason) changes no stored emotion value
\* and appends no emotion-change log entry.
C4_ZeroDeltaChangesNothing ==
    [][(/\ last_op'.n # last_op.n
        /\ last_op'.op = "update_emotional_state"
        /\ last_op'.delta = 0)
       => (emotional_state' = emotional_state /\ emotion_log' = emotion_log)]_vars

\* C5: after update_personality_trait(t, d) the stored value of t is
\* min(10, max(0, v + d)) for every delta, also one of at most 0.01.
C5_TraitIsClampedSum ==
    TraitCall =>
        DictGet(personality_traits, last_op.name, 1000)
            = Clamp(TraitBoundLo, TraitBoundHi, last_op.before + last_op.delta)

\* C6: the key sets of the emotion dict and of the trait dict never change:
\* an update with a name outside the enumerated sets leaves the store alone.
C6_KeySetsFixed ==
    /\ DOMAIN emotional_state = Emotions
    /\ DOMAIN personality_traits = Traits

-----------------------------------------------------------------------------
(* Properties of the threads *)

\* the store after one call made alone, from old value to write, in one step
ApplyCall(store, call) ==
    IF call.op = "update_emotional_state"
    THEN [store EXCEPT !.es = update_emotional_state(store.es, << >>, << >>, 0,
                                                     call.name, call.delta).es]
    ELSE IF call.op = "update_personality_trait"
    THEN [store EXCEPT !.pt = update_personality_trait(store.pt, << >>,
                                                       call.name, call.delta).pt]
    ELSE store

\* the stores that the calls h1 and h2 can leave when the calls run one after
\* another, each thread's calls in its own order
RECURSIVE SerialOutcomes(_, _, _)
SerialOutcomes(store, h1, h2) ==
    IF h1 = << >> /\ h2 = << >> THEN {store}
    ELSE (IF h1 = << >> THEN {}
          ELSE SerialOutcomes(ApplyCall(store, Head(h1)), Tail(h1), h2))
         \cup
         (IF h2 = << >> THEN {}
          ELSE SerialOutcomes(ApplyCall(store, Head(h2)), h1, Tail(h2)))

Quiescent == \A t \in ThreadIds : threads[t].pc = "idle"

\* C7: when the threads' calls have returned, the stored emotions and traits
\* are what the same calls leave when made one after another in some order;
\* no update is lost.
C7_SerialOutcome ==
    (DOMAIN threads = ThreadIds /\ Quiescent) =>
        [es |-> emotional_state, pt |-> personality_traits] \in
            SerialOutcomes([es |-> default_values, pt |-> initial_traits],
                           threads["foreground"].history,
                           threads["background"].history)

\* both threads added 3.0 to joy (5.0): the second addition is clamped at 10.0
C7_Witness ==
    /\ DOMAIN threads = ThreadIds
    /\ Quiescent
    /\ \A t \in ThreadIds :
          /\ Len(threads[t].history) >= 1
          /\ threads[t].history[1] =
                [op |-> "update_emotional_state", name |-> "joy", delta |-> 600]
    /\ emotional_state["joy"] = 2000

\* C8: every read and every write of the emotions, the traits and the rest
\* of kairo_state is made by a thread that holds StateManager.lock.
C8_AccessHoldsLock == access.thread # "none" => access.locked

IOSteps == {"rename", "prune", "dump"}

\* C9: no thread renames, unlinks or writes a file while it holds
\* StateManager.lock.
C9_NoIOUnderLock ==
    \A t \in DOMAIN threads : threads[t].pc \in IOSteps => lock.owner # t

-----------------------------------------------------------------------------
(* Properties of the decay *)

\* w lies between v and the baseline of the emotion, ends included
TowardBaseline(emotion, v, w) ==
    IF v >= Baseline(emotion)
    THEN Baseline(emotion) <= w /\ w <= v
    ELSE v <= w /\ w <= Baseline(emotion)

\* C10: every step of a decay tick leaves each emotion between its value
\* before the step and its baseline (5.0 for joy and interest, 0.0 for the
\* others): it moves toward the baseline or stays, and never passes it; so
\* after any number of ticks the value is on the side where it started.
C10_DecayTowardBaseline ==
    [][\A e \in Emotions :
          TowardBaseline(e, emotional_state[e], emotional_state'[e])]_vars

\* a tick after 5 minutes or more took joy from 5.5 to the baseline 5.0, not to 0.0
C10_Witness ==
    /\ last_op.caller = "natural_decay"
    /\ last_op.name = "joy"
    /\ last_op.before = 1100
    /\ decay.secs >= 300
    /\ emotional_state["joy"] = 1000

-----------------------------------------------------------------------------
(* Properties of the decay under an irregular clock *)

\* C11: a decay tick whose elapsed time is negative or absurdly large treats
\* it as zero: no step of that tick changes an emotion value.
C11_AnomalyChangesNothing ==
    [][(decay.pc = "apply" /\ (decay.secs < 0 \/ decay.secs >= AbsurdSeconds))
          => emotional_state' = emotional_state]_vars

-----------------------------------------------------------------------------
(* Properties of the memory collection *)

\* C12: the number of retained memory records never exceeds the cap.
C12_MemoryWithinCap == Len(memories) <= max_conversation_history

\* C13: a record whose importance is at least the threshold is never removed
\* by a later add_interaction or add_memory.
C13_ImportantSurvive ==
    [][\A i \in 1..Len(memories) :
          memories[i].importance >= importance_threshold
             => \E j \in 1..Len(memories') : memories'[j] = memories[i]]_vars

\* the records the consolidation of the list all has to keep: the important
\* ones and the RecentWindow most recent ones
MustKeep(all) ==
    {all[i] : i \in {k \in 1..Len(all) :
                        \/ all[k].importance >= importance_threshold
                        \/ k > Len(all) - RecentWindow}}

\* C14: when an add_interaction takes the collection over the cap, the call
\* returns and the new collection holds exactly the important records and the most recent
\* records, each once, in the order of their timestamps.
C14_ConsolidationIsUnion ==
    [][(last_op'.n # last_op.n /\ last_op'.op = "add_interaction"
          /\ Len(memories) + 1 > max_conversation_history)
        => /\ ~last_op'.raised
           /\ LET all == Append(memories, last_op'.ret[1])
              IN  /\ {memories'[i] : i \in 1..Len(memories')} = MustKeep(all)
                  /\ Len(memories') = Cardinality(MustKeep(all))
                  /\ \A i, j \in 1..Len(memories') :
                        i < j => memories'[i].timestamp[2]
                                    < memories'[j].timestamp[2]]_vars

\* C15: no two retained records made by the same insertion operation have
\* the same id.
C15_IdsUnique ==
    \A i, j \in 1..Len(memories) :
        (i # j /\ memories[i].op = memories[j].op) => memories[i].id # memories[j].id

-----------------------------------------------------------------------------
(* Properties of the getters *)

\* C16: a mapping handed out by get_emotional_state, get_current_state or
\* get_current_traits is a copy: a write into it changes no stored emotion
\* or trait, and it goes on showing the values it was taken with (and the
\* holder's own writes) whatever is stored later.
C16_SnapshotsAreCopies ==
    /\ [](held.kind # "none" => HeldValue = held.taken)
    /\ [][held'.writes = held.writes + 1
             => /\ emotional_state' = emotional_state
                /\ personality_traits' = personality_traits]_vars

\* the holder wrote joy into a mapping taken before, and the store was
\* updated after the mapping was taken
C16_Witness ==
    /\ held.kind = "emotional_state"
    /\ held.writes = 1
    /\ last_op.op = "update_emotional_state"
    /\ held.taken["joy"] = 200
    /\ emotional_state["joy"] \notin {200, default_values["joy"]}

-----------------------------------------------------------------------------
(* Properties of the persistence *)

SaveDone == last_op.op = "save_state" /\ last_op.name = "ok"

\* C17: after a save_state the snapshot that existed before has become one
\* more backup, and the backups that exist are the BackupKeep most recently
\* created ones (all of them when fewer were created).
C17_BackupsAreNewest ==
    SaveDone =>
        /\ files.exists
        /\ last_op.had => files.ncreated = last_op.before + 1
        /\ {b.created : b \in files.backups}
              = {k \in 1..files.ncreated : k > files.ncreated - BackupKeep}

\* C18: a save_state that fails at any step raises nothing to its caller,
\* changes nothing of the state in memory and leaves last_save_time alone,
\* so that the save is due again at the next wake-up of the auto-save.
C18_FailedSaveIsRetried ==
    [][(last_op'.n # last_op.n /\ last_op'.op = "save_state"
           /\ last_op'.name # "ok")
        => /\ ~last_op'.raised
           /\ UNCHANGED <<storeVars, memVars, user_profiles>>
           /\ last_save_time' = last_save_time
           /\ (last_op'.caller = "auto_save" => AutoSaveDue')]_vars

\* the dump of an auto-save failed half-way and the save is still due
C18_Witness ==
    /\ last_op.op = "save_state"
    /\ last_op.name = "dump_fails"
    /\ last_op.caller = "auto_save"
    /\ files.saved = PartialContent
    /\ AutoSaveDue

-----------------------------------------------------------------------------
(* Properties of the snapshot load *)

\* C19: when _load_kairo_state fails (the file cannot be read or parsed, or
\* its validation raises), the state in memory afterwards is the default
\* state: default emotion values, initial traits, no memories, interaction
\* count zero; and the initialization goes on.
C19_FailedLoadGivesDefaults ==
    (last_op.op = "load_kairo_state" /\ last_op.raised)
        => /\ emotional_state = default_values
           /\ personality_traits = initial_traits
           /\ memories = << >>
           /\ interaction_count = 0
           /\ phase = "running"

-----------------------------------------------------------------------------
(* Properties of the user profiles *)

NoDuplicates(s) == \A i, j \in 1..Len(s) : s[i] = s[j] => i = j

\* C20: in every reachable state, whatever add_user_fact calls the
\* foreground and the idle thread have made and however they interleave,
\* no profile's list of facts holds the same fact twice.
C20_FactsDeduplicated ==
    \A user_id \in DOMAIN user_profiles.index :
        NoDuplicates(user_profiles.objects[user_profiles.index[user_id]].facts)

-----------------------------------------------------------------------------
(* Properties of the analysis pass *)

\* the sum of the reductions of target by the triples from i on whose source
\* has a positive direct delta
RECURSIVE ReductionsOf(_, _, _)
ReductionsOf(adjustments, target, i) ==
    IF i > Len(emotional_constraints) THEN 0
    ELSE (IF /\ emotional_constraints[i][2] = target
             /\ emotional_constraints[i][1] \in DOMAIN adjustments
             /\ adjustments[emotional_constraints[i][1]] > 0
          THEN Reduction(adjustments, i) ELSE 0)
         + ReductionsOf(adjustments, target, i + 1)

\* every direct delta applied, then every target reduced once per triple
InhibitionReference(start, adjustments) ==
    [e \in DOMAIN start |->
        LET direct == IF e \in DOMAIN adjustments
                      THEN Clamp(EmotionBoundLo, EmotionBoundHi,
                                 start[e] + adjustments[e])
                      ELSE start[e]
        IN  Max(EmotionBoundLo, direct - ReductionsOf(adjustments, e, 1))]

\* C21: when an analysis pass (analyze_text or trigger_emotion) ends, every
\* emotion has the value of the reference computation: all direct deltas
\* applied first, then each target of a triple whose source had a positive
\* delta reduced once by delta * factor, clamped at the lower bound only.
C21_SinglePassInhibition ==
    [][(fg.pc # "idle" /\ fg'.pc = "idle")
        => emotional_state' = InhibitionReference(fg.start, fg.adjustments)]_vars

-----------------------------------------------------------------------------
(* Properties of get_dominant_emotion *)

\* the value of emotion e in a dict given by its items
ItemValue(items, e) == items[CHOOSE i \in 1..Len(items) : items[i][1] = e][2]

\* C22: get_dominant_emotion returns the emotion of greatest value among
\* those above 3.0, the first of them in the canonical enumeration (joy,
\* sadness, anger, fear, surprise, interest) when several have that value,
\* and (neutral, 0) when none is above 3.0.
C22_DominantIsCanonicalArgmax ==
    last_op.op = "get_dominant_emotion" =>
        LET above == {i \in 1..Len(EmotionOrder) :
                         ItemValue(emotional_state, EmotionOrder[i]) > 600}
        IN  IF above = {}
            THEN last_op.ret = <<"neutral", 0>>
            ELSE \E i \in above :
                    /\ \A j \in above :
                          ItemValue(emotional_state, EmotionOrder[j])
                             <= ItemValue(emotional_state, EmotionOrder[i])
                    /\ \A j \in above :
                          ItemValue(emotional_state, EmotionOrder[j])
                             = ItemValue(emotional_state, EmotionOrder[i]) => i <= j
                    /\ last_op.ret = <<EmotionOrder[i],
                                       ItemValue(emotional_state, EmotionOrder[i])>>

-----------------------------------------------------------------------------
(* Properties of the personality learning *)

\* C23: a learning event is recorded by the calls of analyze_interaction
\* that change a stored trait and by no others, one event per call, and the
\* event lists only deltas that the call applied to the store.
C23_EventIffTraitChange ==
    [][last_op'.op = "analyze_interaction" /\ last_op'.n # last_op.n
        => /\ last_op'.had <=> personality_traits' # personality_traits
           /\ last_op'.had =>
                 LET event == learning_history'[Len(learning_history')]
                 IN  /\ event.n = last_op'.before + 1
                     /\ \A t \in DOMAIN event.adjustments :
                           personality_traits'[t]
                              = personality_traits[t] + event.adjustments[t]]_vars

\* the contributions to the traits summed, then scaled by the learning rate
ScaledSum(content, interaction_type, metadata, es) ==
    LET patterns == [t \in UNION {DOMAIN interaction_patterns[p] : p \in content.patterns} |->
                        SumOver([p \in content.patterns |->
                                    DictGet(interaction_patterns[p], t, 0)],
                                content.patterns)]
        total == AddInto(AddInto(patterns, get_emotional_influence_on_personality(es)),
                         analyze_context(content, interaction_type, metadata))
        scaled == [t \in DOMAIN total |-> (total[t] * learning_rate) \div 10]
    IN  [t \in {u \in DOMAIN scaled : Abs(scaled[u]) > 2 * Fine} |-> scaled[t]]

\* C24: the deltas analyze_interaction passes to update_personality_trait
\* are, per trait, the learning rate times the sum of the pattern, emotional
\* and contextual contributions, for the traits where that exceeds 0.01.
C24_DeltaIsScaledSum ==
    [][\A content \in LearnContents, interaction_type \in InteractionTypes,
          metadata \in Metadatas :
          (content.len > 0 /\ AnalyzeInteraction(content, interaction_type, metadata))
             => last_op'.ret = <<ScaledSum(content, interaction_type, metadata,
                                           emotional_state)>>]_vars

\* C25: after every recorded event the learning history holds at most
\* LearningCap events, the newest among them, and is a contiguous suffix of
\* the events recorded so far, in their order.
C25_HistoryIsBoundedSuffix ==
    (last_op.op = "analyze_interaction" /\ last_op.had)
        => /\ Len(learning_history) <= LearningCap
           /\ learning_history # << >>
           /\ LastEventNumber(learning_history) = last_op.before + 1
           /\ \A i \in 1..Len(learning_history) :
                 learning_history[i].n
                    = last_op.before + 1 - (Len(learning_history) - i)

\* the history was cut back to its newest events
C25_Witness ==
    /\ last_op.op = "analyze_interaction"
    /\ last_op.had
    /\ Len(learning_history) = LearningKeep
    /\ learning_history[1].n > 1

-----------------------------------------------------------------------------
(* Properties of the idle processor *)

\* C26: as wired (an OpenAIClient as the LLM client), a check tick that
\* finds the idle duration at or above the threshold fires an activity
\* exactly when fewer than max_idle_actions were fired since the last
\* update_interaction_time: one per tick for three ticks, then none.
C26_ThreeTicksThenNone ==
    [][(idle.ollama_client = "openai" /\ idle.pc = "sleep" /\ idle.due /\ ~idle'.due
          /\ now - idle.last_interaction_time >= idle_threshold)
         => (idle'.invocations = idle.invocations + 1
                <=> idle.invocations < max_idle_actions)]_vars

\* C27: within one idle period _execute_idle_activity is called at most
\* max_idle_actions times, whatever the calls return.
C27_InvocationsCapped ==
    idle.invocations <= max_idle_actions

\* C28: after update_interaction_time, until the idle duration measured
\* from it reaches the threshold again, current_idle_actions is 0 and no
\* plan of an idle activity is executed, a tick in flight included.
C28_ResetHoldsUntilThreshold ==
    now - idle.last_interaction_time < idle_threshold
        => idle.current_idle_actions = 0 /\ idle.plans = 0

\* C29: for a draw in [0, total) the selection returns the first kind, in
\* the order of the kinds, whose cumulative weight strictly exceeds the draw
\* (so never a kind of weight 0), and none when there is no candidate or the
\* total weight is zero.
C29_CumulativeWeightRule ==
    LET items == idle.weighted_activities
        total_weight == CumulativeWeight(items, Len(items))
        above == {i \in 1..Len(items) : CumulativeWeight(items, i) > idle.rand_value}
    IN  (idle.selected # "pending" /\ (total_weight = 0 \/ idle.rand_value < total_weight))
           => IF Len(items) = 0 \/ total_weight = 0
              THEN idle.selected = "none"
              ELSE /\ idle.selected = items[CHOOSE i \in above : \A j \in above : i <= j][1]
                   /\ \A i \in 1..Len(items) :
                         items[i][2] = 0 => idle.selected # items[i][1]

\* C30: with the fixed weights {A: 30, B: 10} the selection returns A for
\* the draws of [0, 30] and B for the others: A has three quarters of the
\* draw range [0, 40), the frequency its draws converge to.
C30_ThreeQuartersForA ==
    (idle.selected # "pending" /\ idle.weighted_activities = FixedWeights)
        => /\ idle.selected = "A" <=> idle.rand_value <= 30 * DrawRes
           /\ idle.selected = "B" <=> idle.rand_value > 30 * DrawRes
           /\ 4 * (30 * DrawRes) = 3 * CumulativeWeight(FixedWeights, 2)

\* B was selected with the fixed weights
C30_Witness ==
    /\ idle.weighted_activities = FixedWeights
    /\ idle.selected = "B"
    /\ idle.rand_value = 30 * DrawRes + 1

\* C31: total_idle_periods grows by one exactly when the first activity of
\* an idle period has been processed, whatever it returned, and by nothing
\* on any other step; total_idle_actions is the sum of activities_by_type.
C31_OnePeriodCountedOnce ==
    [][LET processed == \/ idle.pc = "llm" /\ idle'.pc = "sleep"
                        \/ /\ idle.pc = "sleep" /\ idle'.pc = "sleep"
                           /\ idle'.invocations = idle.invocations + 1
           first == processed /\ idle'.invocations = 1
       IN  /\ idle'.total_idle_periods =
                 idle.total_idle_periods + (IF first THEN 1 ELSE 0)
           /\ idle'.total_idle_actions =
                 SumOver(idle'.activities_by_type, DOMAIN idle'.activities_by_type)]_vars

\* C40: important_memories holds exactly the records of the memory whose
\* importance is at least the threshold, each once.
C40_CacheMirrorsMemories ==
    LET important == SelectSeq(memories, LAMBDA r : r.importance >= importance_threshold)
    IN  /\ {important_memories[i] : i \in 1..Len(important_memories)}
              = {important[i] : i \in 1..Len(important)}
        /\ Len(important_memories) = Len(important)

\* C38: a call of save_state that found kairo_state.json leaves a
\* kairo_state.json that a later start can load, whichever way the call
\* ended.
C38_SaveKeepsPrimarySnapshot ==
    [][(last_op'.n = last_op.n + 1 /\ last_op'.op = "save_state" /\ files.exists)
         => (files'.exists /\ files'.saved # PartialContent)]_vars

\* the value of the emotion at its last log entry, or at the start when it
\* has none
LastLoggedValue(log, emotion) ==
    LET own == {i \in 1..Len(log) : log[i].emotion = emotion}
    IN  IF own = {} THEN default_values[emotion]
        ELSE log[CHOOSE i \in own : \A j \in own : j <= i].new_value

\* C37: a call of update_emotional_state appends a log entry exactly when
\* the emotion is more than 0.5 away from its value at its last log entry
\* and at least 3 seconds have passed since that entry.
C37_LogOnDriftAndCooldown ==
    [][(last_op'.n = last_op.n + 1 /\ last_op'.op = "update_emotional_state")
         => LET emotion == last_op'.name
                drift == Abs(emotional_state'[emotion]
                               - LastLoggedValue(emotion_log, emotion))
                cooled == \/ emotion \notin DOMAIN emotion_log_times
                          \/ now - emotion_log_times[emotion] >= 3
            IN  (Len(emotion_log') = Len(emotion_log) + 1) <=> (drift > 100 /\ cooled)]_vars

\* the value update_emotional_state leaves for a call with this delta
ValueAfterUpdate(value, delta) ==
    LET change == Abs(Max(EmotionBoundLo, Min(EmotionBoundHi, value + delta)) - value)
    IN  IF change > 2 THEN Max(EmotionBoundLo, Min(EmotionBoundHi, value + delta))
        ELSE value

\* the value a decay tick of secs seconds leaves when nothing interleaves
ValueAfterDecay(emotion, value, secs) ==
    ValueAfterUpdate(value, DecayDelta(emotion, value, secs))

\* C35: when the foreground updated an emotion between the read and the
\* write of a decay tick, the value after the tick's write is the one of
\* the tick followed by the update or of the update followed by the tick,
\* and the tick's write does not take the value across the baseline.
C35_DecayTickSerializable ==
    [][(/\ decay.pc = "apply"
        /\ last_op.caller = "foreground"
        /\ last_op'.caller = "natural_decay"
        /\ last_op'.name = last_op.name
        /\ last_op.before = DictGet(decay.current_state, last_op.name, 0))
         => LET emotion == last_op.name
                v == last_op.before
                f == last_op.delta
                w == emotional_state[emotion]
                final == emotional_state'[emotion]
                base == Baseline(emotion)
            IN  /\ final \in { ValueAfterUpdate(ValueAfterDecay(emotion, v, decay.secs), f),
                               ValueAfterDecay(emotion, ValueAfterUpdate(v, f), decay.secs) }
                /\ ~(w > base /\ final < base)
                /\ ~(w < base /\ final > base)]_vars

\* C36: every profile object that was created is the one stored under its
\* user id, and the profile a call works on is the stored one, so nothing
\* written through it is lost.
C36_OneProfilePerUser ==
    /\ \A k \in 1..Len(user_profiles.objects) :
          user_profiles.index[user_profiles.objects[k].id] = k
    /\ \A t \in ThreadIds :
          threads[t].profile # 0
             => threads[t].profile = user_profiles.index[threads[t].user_id]

\* C34: once shutdown has returned after a successful initialize, the
\* shutdown of every module was invoked and the final save_state was made,
\* whether or not run was entered and however the main loop ended.
C34_ShutdownFlushes ==
    (maestro # << >> /\ maestro.initialization_complete /\ maestro.pc = "down")
        => (/\ maestro.invoked = {ShutdownOrder[i] : i \in 1..Len(ShutdownOrder)}
            /\ maestro.final_save)

\* C39: when initialize has returned False no background loop is left
\* running.
C39_FailedStartLeavesNothingRunning ==
    (maestro # << >> /\ maestro.pc = "failed")
        => \A task \in Tasks : maestro.tasks[task] # "sleep"

\* C33: a background loop whose flag was cleared changes nothing: a pass of
\* the decay loop leaves the emotions as they are, a pass of the idle loop
\* sends nothing to the language model, and nothing of the state changes
\* after the final save of StateManager.shutdown.
C33_AbandonedTaskIsHarmless ==
    [][maestro # << >> =>
        /\ (maestro'.step = "decay" /\ ~maestro.flags["decay"])
              => emotional_state' = emotional_state
        /\ (maestro'.step = "idle" /\ ~maestro.flags["idle"])
              => (maestro'.sent = maestro.sent /\ idle' = idle)
        /\ maestro.final_save => StateContent' = StateContent]_vars

\* C32: a background loop whose flag was cleared ends, and a shutdown that
\* was called returns.
C32_LoopsStopAfterFlag ==
    /\ \A task \in Tasks :
          (maestro.pc \in {"shutdown", "down"} /\ ~maestro.flags[task]
             /\ maestro.tasks[task] = "sleep")
          ~> (maestro.tasks[task] \in {"done", "killed"})
    /\ (maestro.pc = "shutdown") ~> (maestro.pc = "down")

\* shutdown has returned while the idle loop still sleeps, and the decay
\* loop has ended at its test of the flag
C32_Witness ==
    /\ maestro # << >>
    /\ maestro.pc = "down"
    /\ maestro.final_save
    /\ maestro.tasks["decay"] = "done"
    /\ maestro.tasks["idle"] = "sleep"
    /\ ~maestro.flags["idle"]

====
